---- MODULE Spec2Model ----
(***************************************************************************)
(* Model of the exam execution pipeline of exstem-backend-go: the          *)
(* WebSocket command loop, the persistence workers, the session            *)
(* coordinator and the single-device login guard.                          *)
(*                                                                         *)
(* One student is modelled, taking the exam TheExam (every CS key and RS    *)
(* row of the pipeline is keyed by that pair); the exam tables and the     *)
(* exam cache hold the exams of Exams.  CS is the Redis cache store, RS    *)
(* the PostgreSQL relational store.                                        *)
(***************************************************************************)
EXTENDS Integers, Sequences, FiniteSets, TLC

\* ------------------------------------------------------------------ bounds
MaxFrames == 2          \* client frames sent on the WebSocket connection
MaxLogins == 3          \* student tokens issued
NumLoginCalls == 2      \* login requests of the student that may run concurrently
NumJoinCalls == 2       \* JoinExam requests of the student that may run concurrently
MaxClock == 1           \* ticks of the wall clock
MaxListLen == 2         \* questions in a student's list when grading
MaxRules == 1           \* target rules of the exam
MaxSilence == 6         \* minutes of silence followed on one connection
MaxTicks == 2           \* ticks of each ticker of a monitor stream

\* --------------------------------------------------------------- constants
AutosaveBatchSize == 50 \* items buffered before a size-triggered flush
ScoreBatchSize == 50    \* scores batched before a size-triggered flush
AnswerColumnWidth == 5  \* student_answers.answer is VARCHAR(5)
ReadDeadlineMinutes == 5 \* the read deadline ws.ReadJSON arms, in minutes

\* ------------------------------------------------------------------ values
QIDs == {"q1", "q2"}                 \* question ids a client autosaves
ReplacedQIDs == {"q3"}               \* ids of the rows a later ReplaceAll inserts
BankQIDs == QIDs \cup ReplacedQIDs    \* question ids a bank may hold over time
AnswerValues == {"", "A", "B"}       \* "" erases the answer
Absent == "<absent>"                 \* a CS key / hash field / RS row that does not exist
Exams == {"e1", "e2"}                \* exam ids
TheExam == "e1"                      \* the exam the student takes

VARIABLES
    \* environment
    rsUp,                 \* RS accepts statements
    workerCtxDone,        \* workerCtx of main has been cancelled
    mainPc,               \* main: serving, httpStopped, sleeping or exited
    \* WebSocket connection of the student
    wsConnected,          \* the read loop of ExamWebSocketStream is running
    wsFrames,             \* number of frames the client has sent
    wsLastEvent,          \* last frame written to the client
    answersHash,          \* CS student:{sid}:exam:{eid}:answers, q -> answer | Absent
    lastFrame,            \* history: value of the last autosave frame per q
    \* autosave pipeline
    persistAnswersQueue,  \* CS list persist_answers_queue
    asBuffer,             \* AutosaveWorker.Start: buffer
    asPc,                 \* AutosaveWorker.Start: position in the loop
    studentAnswers,       \* RS student_answers, q -> answer | Absent
    asPushed,             \* history: items the handler pushed to the queue
    asWritten,            \* history: popped items whose RS statement succeeded
    asRequeued,           \* history: some flush pushed items back to the queue
    \* single-device login guard
    loginKey,             \* CS login:{sid}, a JTI | NoJTI
    loginPc,              \* GenerateStudentToken: position of each login request
    nextJti,              \* the next JTI uuid.New() returns
    issued,               \* history: JTIs of the tokens issued, in order
    resetSince,           \* history: an admin reset happened after the last login
    evicted,              \* history: tokens followed by an admin reset and a new login
    authLastReq,          \* the last authenticated request and its outcome
    \* exam and exam session
    now,                  \* wall clock (time.Now, NOW())
    exam,                 \* RS exams, exam id -> row
    examPayloadKey,       \* CS exam:{eid}:payload per exam, the question ids in order | NoOrder
    answerKeyHash,        \* CS exam:{eid}:key per exam, q -> correct option | Absent
    examSessions,         \* RS exam_sessions rows of the (exam, student) pair
    nextSessionId,        \* the next id gen_random_uuid() returns
    joinPc,               \* JoinExam: position of each call
    joinResult,           \* JoinExam: what each call returned
    sessionStartKey,      \* CS student:{sid}:exam:{eid}:session_start | NoTime
    activeExamKey,        \* CS student:{sid}:active_exam names the exam
    shuffledKey,          \* CS student:{sid}:exam:{eid}:shuffled_questions | NoOrder
    persistQuestionOrderQueue, \* CS list persist_question_order_queue
    \* score pipeline
    persistScoresQueue,   \* CS list persist_scores_queue
    swBatch,              \* ScoringWorker.Start: batch
    swPc,                 \* ScoringWorker.Start: position in the loop
    gradedScores,         \* history: scores sent in graded frames
    writtenScores,        \* history: final_score values written to RS
    \* exam publishing and the exam cache
    questions,            \* RS questions of each exam's bank, ids in order_num order
    examStateKeys,        \* CS exam:{eid}:duration, :cheat_rules, :random_order that exist
    warmPc,               \* WarmExamCache in progress: its caller, exam and pipeline position
    adminResult,          \* the last answer to an admin's publish or refresh request
    prewarmPc,            \* PrewarmAllCaches: the exams still to warm, or its state
    \* eligibility and exam state
    targetRules,          \* RS exam_target_rules rows of TheExam
    classmates,           \* RS students: religions of the other students of the student's class
    stateResult,          \* GetExamState: what the last call returned
    lobbyResult,          \* GetLobby: what the last call returned
    midnight,             \* the clock time at which the calendar date changes, if it does
    orderResult,          \* GetShuffledQuestionIDs: what the last call returned
    \* the command loop of the WebSocket stream
    wsWritten,            \* frames the server has written in the command loop
    wsLastFrame,          \* the kind of the last client frame the loop has read
    persistCheatsQueue,   \* CS list persist_cheats_queue
    wsSilentFor,          \* minutes since the loop last received a frame
    monitor               \* MonitorExamSSE: the admin's monitor stream of TheExam

envVars == <<rsUp, workerCtxDone, mainPc>>
wsVars == <<wsConnected, wsFrames, wsLastEvent, answersHash, lastFrame>>
autosaveVars == <<persistAnswersQueue, asBuffer, asPc, studentAnswers, asPushed, asWritten,
                  asRequeued>>
authVars == <<loginKey, loginPc, nextJti, issued, resetSince, evicted, authLastReq>>
sessVars == <<now, exam, examPayloadKey, answerKeyHash, examSessions, nextSessionId, joinPc,
              joinResult, sessionStartKey, activeExamKey, shuffledKey,
              persistQuestionOrderQueue>>
scoreVars == <<persistScoresQueue, swBatch, swPc, gradedScores, writtenScores>>
pubVars == <<questions, examStateKeys, warmPc, adminResult, prewarmPc>>
gateVars == <<targetRules, classmates, stateResult, lobbyResult, midnight, orderResult>>
loopVars == <<wsWritten, wsLastFrame, persistCheatsQueue, wsSilentFor, monitor>>
vars == <<envVars, wsVars, autosaveVars, authVars, sessVars, scoreVars, pubVars, gateVars, loopVars>>

\* No monitor stream is attached.
NoMonitor == [pc |-> "none", snapshotJoined |-> 0, hasStudents |-> FALSE, ticks |-> 0,
              refreshes |-> 0, skipped |-> 0, pings |-> 0, forwarded |-> 0]

\* ------------------------------------------------------- autosave worker
\* answerPayload as it travels through the queue (student_id and exam_id are
\* those of the connection).
AnswerPayload(q, a) == [q |-> q, answer |-> a, exam |-> TheExam]

\* uuid.Parse succeeds.
IsUUID(id) == id \in QIDs \cup Exams

\* The payload's exam_id and q_id both parse.
ParsesIDs(p) == IsUUID(p.exam) /\ IsUUID(p.q)

\* The parse loop of bulkUpsert / bulkDelete stops at the first item one of
\* whose ids does not parse and returns err1, the error of the exam_id: nil
\* when only the q_id is invalid.  "none": every item parses.
ParseLoop(batch) ==
    IF \A i \in 1..Len(batch) : ParsesIDs(batch[i]) THEN "none"
    ELSE LET first == CHOOSE i \in 1..Len(batch) :
                          /\ ~ParsesIDs(batch[i])
                          /\ \A j \in 1..(i - 1) : ParsesIDs(batch[j])
         IN  IF IsUUID(batch[first].exam) THEN "nil" ELSE "err"

\* student_answers.answer is VARCHAR(5): RS rejects a longer value.  The
\* handler accepts any string; LongAnswer stands for one of six characters.
LongAnswer == "ABCDEF"
AnswerLength(a) == CASE a = "" -> 0 [] a = LongAnswer -> 6 [] OTHER -> 1
FitsAnswerColumn(a) == AnswerLength(a) <= AnswerColumnWidth

IsTombstone(p) == p.answer = ""
IsUpsert(p) == p.answer # ""

\* PostgreSQL rejects an INSERT .. ON CONFLICT DO UPDATE whose source rows hit
\* the same conflict key twice.
AffectsRowTwice(batch) ==
    \E i, j \in 1..Len(batch) : i < j /\ batch[i].q = batch[j].q

RECURSIVE UpsertAll(_, _)
UpsertAll(rows, batch) ==
    IF batch = <<>> THEN rows
    ELSE UpsertAll([rows EXCEPT ![Head(batch).q] = Head(batch).answer], Tail(batch))

RECURSIVE DeleteAll(_, _)
DeleteAll(rows, batch) ==
    IF batch = <<>> THEN rows
    ELSE DeleteAll([rows EXCEPT ![Head(batch).q] = Absent], Tail(batch))

\* bulkUpsert: one statement for the whole batch; err or the new table, and
\* the number of items written.  A return from the parse loop executes
\* nothing.
bulkUpsert(execOk, rows, batch) ==
    IF ParseLoop(batch) # "none"
    THEN [err |-> ParseLoop(batch) = "err", rows |-> rows, wrote |-> 0]
    ELSE IF execOk /\ ~AffectsRowTwice(batch)
          /\ \A i \in 1..Len(batch) : FitsAnswerColumn(batch[i].answer)
    THEN [err |-> FALSE, rows |-> UpsertAll(rows, batch), wrote |-> Len(batch)]
    ELSE [err |-> TRUE, rows |-> rows, wrote |-> 0]

\* bulkDelete: one DELETE .. USING for the whole batch.
bulkDelete(execOk, rows, batch) ==
    IF ParseLoop(batch) # "none"
    THEN [err |-> ParseLoop(batch) = "err", rows |-> rows, wrote |-> 0]
    ELSE IF execOk
    THEN [err |-> FALSE, rows |-> DeleteAll(rows, batch), wrote |-> Len(batch)]
    ELSE [err |-> TRUE, rows |-> rows, wrote |-> 0]

\* persistSingle: DELETE for a tombstone, UPSERT otherwise; an item whose
\* ids do not parse is dropped (nil).
persistSingle(execOk, rows, p) ==
    IF ~ParsesIDs(p) THEN [err |-> FALSE, rows |-> rows]
    ELSE IF ~execOk THEN [err |-> TRUE, rows |-> rows]
    ELSE IF p.answer = "" THEN [err |-> FALSE, rows |-> [rows EXCEPT ![p.q] = Absent]]
    ELSE IF ~FitsAnswerColumn(p.answer) THEN [err |-> TRUE, rows |-> rows]
    ELSE [err |-> FALSE, rows |-> [rows EXCEPT ![p.q] = p.answer]]

\* Mutant of requeue: the failed items are never pushed back.
requeueLost(ctxDone, queue, items) == queue

\* requeue: RPUSH every item back; the pipeline fails as a whole when the
\* context it is given is done, and its error is ignored.
requeue(ctxDone, queue, items) ==
    IF ctxDone THEN queue ELSE queue \o items

\* The state a flush works on.
FlushState(rows, queue, written, requeued) ==
    [rows |-> rows, queue |-> queue, written |-> written, requeued |-> requeued]

\* fallbackProcess: row by row, failures collected and requeued.
RECURSIVE FallbackRows(_, _, _)
FallbackRows(execOk, rows, batch) ==
    IF batch = <<>> THEN rows
    ELSE FallbackRows(execOk, persistSingle(execOk, rows, Head(batch)).rows, Tail(batch))

fallbackProcess(ctxDone, execOk, st, batch) ==
    LET failed == SelectSeq(batch, LAMBDA p : persistSingle(execOk, st.rows, p).err)
        dropped == SelectSeq(batch, LAMBDA p : ~ParsesIDs(p))
    IN  FlushState(FallbackRows(execOk, st.rows, batch),
                   IF failed # <<>> THEN requeue(ctxDone, st.queue, failed) ELSE st.queue,
                   st.written + (Len(batch) - Len(failed) - Len(dropped)),
                   st.requeued \/ (failed # <<>> /\ ~ctxDone))

\* flushSafe: the upserts of the batch first, then its tombstones.
\* rsFirst is RS at the first statement of the flush, rsLater at the others.
flushSafe(ctxDone, rsFirst, rsLater, st, batch) ==
    LET toUpsert == SelectSeq(batch, IsUpsert)
        toDelete == SelectSeq(batch, IsTombstone)
        up == bulkUpsert(rsFirst /\ ~ctxDone, st.rows, toUpsert)
        st1 == IF toUpsert = <<>> THEN st
               ELSE IF ~up.err
                    THEN FlushState(up.rows, st.queue, st.written + up.wrote, st.requeued)
                    ELSE fallbackProcess(ctxDone, rsLater /\ ~ctxDone, st, toUpsert)
        rsDel == IF toUpsert = <<>> THEN rsFirst ELSE rsLater
        del == bulkDelete(rsDel /\ ~ctxDone, st1.rows, toDelete)
    IN  IF toDelete = <<>> THEN st1
        ELSE IF ~del.err
             THEN FlushState(del.rows, st1.queue, st1.written + del.wrote, st1.requeued)
             ELSE fallbackProcess(ctxDone, rsLater /\ ~ctxDone, st1, toDelete)

\* ------------------------------------------------------------ environment
\* RS goes down or comes back.
RsToggle ==
    /\ rsUp' = ~rsUp
    /\ UNCHANGED <<workerCtxDone, mainPc, wsVars, autosaveVars, authVars, sessVars, scoreVars>>
    /\ UNCHANGED <<pubVars, gateVars, loopVars>>

\* main: a shutdown signal arrives and srv.Shutdown stops the HTTP server
\* (hijacked WebSocket connections stay open).
SrvShutdown ==
    /\ mainPc = "serving"
    /\ mainPc' = "httpStopped"
    /\ UNCHANGED <<rsUp, workerCtxDone, wsVars, autosaveVars, authVars, sessVars, scoreVars>>
    /\ UNCHANGED <<pubVars, gateVars, loopVars>>

\* main: workerCancel() once srv.Shutdown has returned; main then sleeps.
CancelWorkers ==
    /\ mainPc = "httpStopped"
    /\ ~workerCtxDone
    /\ workerCtxDone' = TRUE
    /\ mainPc' = "sleeping"
    /\ UNCHANGED <<rsUp, wsVars, autosaveVars, authVars, sessVars, scoreVars>>
    /\ UNCHANGED <<pubVars, gateVars, loopVars>>

\* main: time.Sleep(2 * time.Second) is over and main returns, whatever the
\* worker goroutines are doing: nothing joins them.
MainExit ==
    /\ mainPc = "sleeping"
    /\ mainPc' = "exited"
    /\ UNCHANGED <<rsUp, workerCtxDone, wsVars, autosaveVars, authVars, sessVars, scoreVars>>
    /\ UNCHANGED <<pubVars, gateVars, loopVars>>

\* ------------------------------------------------ WebSocket command loop
FrameQIDs == QIDs \cup {"", "not-a-uuid"}

\* handleAutosave: one autosave frame {q_id, ans}.  saved: the HSET / HDEL
\* on the answers hash succeeded; pushed: the RPUSH to the queue succeeded
\* (its result is not looked at).
handleAutosave(q, ans, saved, pushed) ==
    /\ mainPc # "exited"
    /\ wsConnected
    /\ wsFrames < MaxFrames
    /\ wsFrames' = wsFrames + 1
    /\ IF q = "" \/ ~IsUUID(q)
       THEN /\ wsLastEvent' = [event |-> "error", status |-> ""]
            /\ UNCHANGED <<answersHash, lastFrame, persistAnswersQueue, asPushed>>
       ELSE IF ~saved
       THEN /\ wsLastEvent' = [event |-> "error", status |-> "save failed"]
            /\ UNCHANGED <<answersHash, lastFrame, persistAnswersQueue, asPushed>>
       ELSE /\ answersHash' = [answersHash EXCEPT ![q] = IF ans = "" THEN Absent ELSE ans]
            /\ persistAnswersQueue' = IF pushed
                                      THEN Append(persistAnswersQueue, AnswerPayload(q, ans))
                                      ELSE persistAnswersQueue
            /\ asPushed' = IF pushed THEN asPushed + 1 ELSE asPushed
            /\ lastFrame' = [lastFrame EXCEPT ![q] = ans]
            /\ wsLastEvent' = [event |-> "success",
                               status |-> IF ans = "" THEN "removed" ELSE "saved"]
    /\ UNCHANGED <<envVars, wsConnected, asBuffer, asPc, studentAnswers, asWritten, asRequeued,
                   authVars, sessVars, scoreVars>>
    /\ wsWritten' = wsWritten + 1
    /\ wsLastFrame' = "autosave"
    /\ wsSilentFor' = 0
    /\ UNCHANGED monitor
    /\ UNCHANGED <<pubVars, gateVars, persistCheatsQueue>>

\* An autosave frame while CS serves both commands.
HandleAutosave == \E q \in FrameQIDs, ans \in AnswerValues : handleAutosave(q, ans, TRUE, TRUE)

\* An autosave frame while CS may fail either command.
HandleAutosaveCS ==
    \E q \in FrameQIDs, ans \in AnswerValues, saved \in BOOLEAN, pushed \in BOOLEAN :
        handleAutosave(q, ans, saved, pushed)

\* An autosave frame whose answer is longer than the answer column: the
\* handler checks q_id only.
HandleAutosaveLong == \E q \in QIDs : handleAutosave(q, LongAnswer, TRUE, TRUE)

\* What a client may put in the payload field of a cheat frame.
CheatPayloads == {"tab-switch", ""}

\* Mutant of handleCheat: the cheat frame is acknowledged.
handleCheatAcknowledged(payload, parsed, pushed) ==
    /\ mainPc # "exited"
    /\ wsConnected
    /\ wsFrames < MaxFrames
    /\ wsFrames' = wsFrames + 1
    /\ wsLastFrame' = "cheat"
    /\ wsSilentFor' = 0
    /\ UNCHANGED monitor
    /\ persistCheatsQueue' = IF parsed /\ pushed THEN Append(persistCheatsQueue, payload)
                             ELSE persistCheatsQueue
    /\ wsWritten' = wsWritten + 1
    /\ wsLastEvent' = [event |-> "success", status |-> "reported"]
    /\ UNCHANGED <<wsConnected, answersHash, lastFrame>>
    /\ UNCHANGED <<envVars, autosaveVars, authVars, sessVars, scoreVars, pubVars, gateVars>>

\* A frame with action "cheat": the frame is decoded as a CheatRequest
\* (parsed: the payload field is a string) and handleCheat pushes the event to
\* persist_cheats_queue (pushed: the RPUSH succeeded).  Nothing is written to
\* the client on any path.
handleCheat(payload, parsed, pushed) ==
    /\ mainPc # "exited"
    /\ wsConnected
    /\ wsFrames < MaxFrames
    /\ wsFrames' = wsFrames + 1
    /\ wsLastFrame' = "cheat"
    /\ wsSilentFor' = 0
    /\ UNCHANGED monitor
    /\ persistCheatsQueue' = IF parsed /\ pushed THEN Append(persistCheatsQueue, payload)
                             ELSE persistCheatsQueue
    /\ UNCHANGED <<wsWritten, wsLastEvent>>
    /\ UNCHANGED <<wsConnected, answersHash, lastFrame>>
    /\ UNCHANGED <<envVars, autosaveVars, authVars, sessVars, scoreVars, pubVars, gateVars>>

HandleCheat ==
    \E payload \in CheatPayloads, parsed \in BOOLEAN, pushed \in BOOLEAN :
        handleCheat(payload, parsed, pushed)

\* A frame that is not JSON, or whose action field is not a string: the
\* envelope cannot be decoded, the loop logs a warning and reads on.
HandleInvalidJSON ==
    /\ mainPc # "exited"
    /\ wsConnected
    /\ wsFrames < MaxFrames
    /\ wsFrames' = wsFrames + 1
    /\ wsLastFrame' = "invalid-json"
    /\ wsSilentFor' = 0
    /\ UNCHANGED monitor
    /\ UNCHANGED <<wsWritten, wsLastEvent, persistCheatsQueue>>
    /\ UNCHANGED <<wsConnected, answersHash, lastFrame>>
    /\ UNCHANGED <<envVars, autosaveVars, authVars, sessVars, scoreVars, pubVars, gateVars>>

\* Actions a client may send that the switch does not know ("" when the
\* field is missing).
UnknownActions == {"", "finish"}

\* The default case of the switch: one error event.
HandleUnknownAction(a) ==
    /\ mainPc # "exited"
    /\ wsConnected
    /\ wsFrames < MaxFrames
    /\ wsFrames' = wsFrames + 1
    /\ wsLastFrame' = "unknown-action"
    /\ wsSilentFor' = 0
    /\ UNCHANGED monitor
    /\ wsWritten' = wsWritten + 1
    /\ wsLastEvent' = [event |-> "error", status |-> "unknown action: " \o a]
    /\ UNCHANGED persistCheatsQueue
    /\ UNCHANGED <<wsConnected, answersHash, lastFrame>>
    /\ UNCHANGED <<envVars, autosaveVars, authVars, sessVars, scoreVars, pubVars, gateVars>>

\* A frame with action "autosave" that is not an AutosaveRequest (q_id or
\* ans is not a string): one error event.
HandleAutosaveFormat ==
    /\ mainPc # "exited"
    /\ wsConnected
    /\ wsFrames < MaxFrames
    /\ wsFrames' = wsFrames + 1
    /\ wsLastFrame' = "autosave-format"
    /\ wsSilentFor' = 0
    /\ UNCHANGED monitor
    /\ wsWritten' = wsWritten + 1
    /\ wsLastEvent' = [event |-> "error", status |-> "invalid autosave format"]
    /\ UNCHANGED persistCheatsQueue
    /\ UNCHANGED <<wsConnected, answersHash, lastFrame>>
    /\ UNCHANGED <<envVars, autosaveVars, authVars, sessVars, scoreVars, pubVars, gateVars>>

\* A frame with action "ping": one pong event.
HandlePing ==
    /\ mainPc # "exited"
    /\ wsConnected
    /\ wsFrames < MaxFrames
    /\ wsFrames' = wsFrames + 1
    /\ wsLastFrame' = "ping"
    /\ wsSilentFor' = 0
    /\ UNCHANGED monitor
    /\ wsWritten' = wsWritten + 1
    /\ wsLastEvent' = [event |-> "pong", status |-> ""]
    /\ UNCHANGED persistCheatsQueue
    /\ UNCHANGED <<wsConnected, answersHash, lastFrame>>
    /\ UNCHANGED <<envVars, autosaveVars, authVars, sessVars, scoreVars, pubVars, gateVars>>

\* conn.ReadMessage blocks until a frame arrives or the connection fails:
\* the loop arms no read deadline (SetReadDeadline is only called by
\* ws.ReadJSON, which the loop does not use), so a minute in which the client
\* sends nothing leaves the loop where it is.
SilentMinute ==
    /\ mainPc # "exited"
    /\ wsConnected
    /\ wsSilentFor < MaxSilence
    /\ wsSilentFor' = wsSilentFor + 1
    /\ UNCHANGED <<wsWritten, wsLastFrame, persistCheatsQueue, monitor>>
    /\ UNCHANGED <<envVars, wsVars, autosaveVars, authVars, sessVars, scoreVars, pubVars, gateVars>>

\* conn.ReadMessage returns an error (the peer closed the connection or the
\* network reported a failure): the loop breaks and the deferred conn.Close
\* runs.
ReadMessageError ==
    /\ mainPc # "exited"
    /\ wsConnected
    /\ wsConnected' = FALSE
    /\ UNCHANGED <<wsFrames, wsLastEvent, answersHash, lastFrame>>
    /\ UNCHANGED <<envVars, autosaveVars, authVars, sessVars, scoreVars, pubVars, gateVars, loopVars>>

\* -------------------------------------------------------- monitor stream
\* GET /api/v1/admin/exams/:id/monitor by an admin with exams:write: the
\* exam is read from RS, the snapshot is sent with the sessions
\* GetExamResults returns (its error is ignored: none when RS fails), and the
\* loop starts with hasStudents false whatever the snapshot held.
MonitorExamSSE ==
    /\ mainPc = "serving"
    /\ monitor.pc = "none"
    /\ rsUp
    /\ \E rsLater \in BOOLEAN :
          /\ rsUp' = rsLater
          /\ monitor' = [NoMonitor EXCEPT
                            !.pc = "streaming",
                            !.snapshotJoined = IF rsLater THEN Cardinality(examSessions) ELSE 0]
    /\ UNCHANGED <<workerCtxDone, mainPc, wsVars, autosaveVars, authVars, sessVars, scoreVars>>
    /\ UNCHANGED <<pubVars, gateVars, wsWritten, wsLastFrame, persistCheatsQueue, wsSilentFor>>

\* case msg := <-ch: a message published on the exam's channel is forwarded
\* and hasStudents is set.
MonitorMessage ==
    /\ monitor.pc = "streaming"
    /\ monitor.forwarded < MaxTicks
    /\ monitor' = [monitor EXCEPT !.forwarded = @ + 1, !.hasStudents = TRUE]
    /\ UNCHANGED <<envVars, wsVars, autosaveVars, authVars, sessVars, scoreVars>>
    /\ UNCHANGED <<pubVars, gateVars, wsWritten, wsLastFrame, persistCheatsQueue, wsSilentFor>>

\* case <-refreshTicker.C: skipped while hasStudents is false; otherwise
\* sendRefresh, which sends nothing when GetStudentProgress fails.
MonitorRefreshTick ==
    /\ monitor.pc = "streaming"
    /\ monitor.ticks < MaxTicks
    /\ monitor' = IF ~monitor.hasStudents
                  THEN [monitor EXCEPT !.ticks = @ + 1, !.skipped = @ + 1]
                  ELSE IF rsUp
                       THEN [monitor EXCEPT !.ticks = @ + 1, !.refreshes = @ + 1]
                       ELSE [monitor EXCEPT !.ticks = @ + 1]
    /\ UNCHANGED <<envVars, wsVars, autosaveVars, authVars, sessVars, scoreVars>>
    /\ UNCHANGED <<pubVars, gateVars, wsWritten, wsLastFrame, persistCheatsQueue, wsSilentFor>>

\* case <-keepAliveTicker.C: a ping event.
MonitorKeepAlive ==
    /\ monitor.pc = "streaming"
    /\ monitor.pings < MaxTicks
    /\ monitor' = [monitor EXCEPT !.pings = @ + 1]
    /\ UNCHANGED <<envVars, wsVars, autosaveVars, authVars, sessVars, scoreVars>>
    /\ UNCHANGED <<pubVars, gateVars, wsWritten, wsLastFrame, persistCheatsQueue, wsSilentFor>>

\* case <-reqCtx.Done(): the admin went away, the handler returns.
MonitorCancel ==
    /\ monitor.pc = "streaming"
    /\ monitor' = [monitor EXCEPT !.pc = "closed"]
    /\ UNCHANGED <<envVars, wsVars, autosaveVars, authVars, sessVars, scoreVars>>
    /\ UNCHANGED <<pubVars, gateVars, wsWritten, wsLastFrame, persistCheatsQueue, wsSilentFor>>

\* ------------------------------------------------- AutosaveWorker.Start
\* Top of the loop: the buffer is flushed when it is full or BatchTimeout has
\* elapsed since the last flush (time is not modelled: it may have elapsed
\* whenever the buffer is not empty).
AsFlush ==
    /\ mainPc # "exited"
    /\ asPc = "check"
    /\ asBuffer # <<>>
    /\ \E rsLater \in BOOLEAN :
          LET st == flushSafe(workerCtxDone, rsUp, rsLater,
                              FlushState(studentAnswers, persistAnswersQueue, asWritten, asRequeued),
                              asBuffer)
          IN  /\ studentAnswers' = st.rows
              /\ persistAnswersQueue' = st.queue
              /\ asWritten' = st.written
              /\ asRequeued' = st.requeued
              /\ rsUp' = rsLater
    /\ asBuffer' = <<>>
    /\ UNCHANGED <<workerCtxDone, mainPc, wsVars, asPc, asPushed, authVars, sessVars, scoreVars>>
    /\ UNCHANGED <<pubVars, gateVars, loopVars>>

\* select on ctx.Done(): not cancelled, go on to BLPOP.
AsSelect ==
    /\ mainPc # "exited"
    /\ asPc = "check"
    /\ Len(asBuffer) < AutosaveBatchSize
    /\ ~workerCtxDone
    /\ asPc' = "blpop"
    /\ UNCHANGED <<envVars, wsVars, persistAnswersQueue, asBuffer, studentAnswers,
                   asPushed, asWritten, asRequeued, authVars, sessVars, scoreVars>>
    /\ UNCHANGED <<pubVars, gateVars, loopVars>>

\* select on ctx.Done(): cancelled, shutdown(buffer) flushes under a fresh
\* context and Start returns.
AsShutdown ==
    /\ mainPc # "exited"
    /\ asPc = "check"
    /\ Len(asBuffer) < AutosaveBatchSize
    /\ workerCtxDone
    /\ \E rsLater \in BOOLEAN :
          LET st == IF asBuffer = <<>>
                    THEN FlushState(studentAnswers, persistAnswersQueue, asWritten, asRequeued)
                    ELSE flushSafe(FALSE, rsUp, rsLater,
                                   FlushState(studentAnswers, persistAnswersQueue, asWritten, asRequeued),
                                   asBuffer)
          IN  /\ studentAnswers' = st.rows
              /\ persistAnswersQueue' = st.queue
              /\ asWritten' = st.written
              /\ asRequeued' = st.requeued
              /\ rsUp' = IF asBuffer = <<>> THEN rsUp ELSE rsLater
    /\ asBuffer' = <<>>
    /\ asPc' = "stopped"
    /\ UNCHANGED <<workerCtxDone, mainPc, wsVars, asPushed, authVars, sessVars, scoreVars>>
    /\ UNCHANGED <<pubVars, gateVars, loopVars>>

\* BLPOP returns an item (appended to the buffer) or times out (redis.Nil).
AsBLPop ==
    /\ mainPc # "exited"
    /\ asPc = "blpop"
    /\ IF persistAnswersQueue # <<>>
       THEN /\ asBuffer' = Append(asBuffer, Head(persistAnswersQueue))
            /\ persistAnswersQueue' = Tail(persistAnswersQueue)
       ELSE UNCHANGED <<asBuffer, persistAnswersQueue>>
    /\ asPc' = "check"
    /\ UNCHANGED <<envVars, wsVars, studentAnswers, asPushed, asWritten, asRequeued, authVars, sessVars, scoreVars>>
    /\ UNCHANGED <<pubVars, gateVars, loopVars>>

\* BLPOP fails because ctx is done: Start returns at once.
AsBLPopCtxErr ==
    /\ mainPc # "exited"
    /\ asPc = "blpop"
    /\ workerCtxDone
    /\ asPc' = "stopped"
    /\ UNCHANGED <<envVars, wsVars, persistAnswersQueue, asBuffer, studentAnswers,
                   asPushed, asWritten, asRequeued, authVars, sessVars, scoreVars>>
    /\ UNCHANGED <<pubVars, gateVars, loopVars>>

\* Items one of whose ids does not parse (the handler pushes none: they come
\* from another producer of the list).
UnparsableItems ==
    {[q |-> "not-a-uuid", answer |-> a, exam |-> TheExam] : a \in AnswerValues}
        \cup {[q |-> q, answer |-> a, exam |-> "not-a-uuid"] : q \in QIDs, a \in AnswerValues}

\* Such an item is pushed to persist_answers_queue (one at a time).
PushUnparsable ==
    /\ mainPc # "exited"
    /\ \A i \in 1..Len(persistAnswersQueue) : ParsesIDs(persistAnswersQueue[i])
    /\ \A i \in 1..Len(asBuffer) : ParsesIDs(asBuffer[i])
    /\ \E p \in UnparsableItems : persistAnswersQueue' = Append(persistAnswersQueue, p)
    /\ UNCHANGED <<envVars, wsVars, asBuffer, asPc, studentAnswers, asPushed, asWritten,
                   asRequeued, authVars, sessVars, scoreVars>>
    /\ UNCHANGED <<pubVars, gateVars, loopVars>>

\* --------------------------------------------- auth and session guard
NoJTI == 0
LoginCalls == 1..NumLoginCalls

\* Mutant of ValidateStudentSession: any stored session passes.
ValidateStudentSessionAnyJti(stored, jti) ==
    IF stored = NoJTI THEN "no active session" ELSE "ok"

\* ValidateStudentSession: the token's JTI must be the one stored in CS.
ValidateStudentSession(stored, jti) ==
    IF stored = NoJTI THEN "no active session"
    ELSE IF stored # jti THEN "session invalidated"
    ELSE "ok"

\* Mutant of GenerateStudentTokenCheck: the stored session is not looked at.
GenerateStudentTokenNoCheck(c) ==
    /\ mainPc = "serving"
    /\ loginPc[c] = "idle"
    /\ nextJti <= MaxLogins
    /\ loginPc' = [loginPc EXCEPT ![c] = "checked"]
    /\ UNCHANGED authLastReq
    /\ UNCHANGED <<loginKey, nextJti, issued, resetSince, evicted>>
    /\ UNCHANGED <<envVars, wsVars, autosaveVars, sessVars, scoreVars>>
    /\ UNCHANGED <<pubVars, gateVars, loopVars>>

\* GenerateStudentToken, first half: GET login:{sid}; a stored session
\* rejects the login (SessionAlreadyActive).
GenerateStudentTokenCheck(c) ==
    /\ mainPc = "serving"
    /\ loginPc[c] = "idle"
    /\ nextJti <= MaxLogins
    /\ IF loginKey # NoJTI
       THEN /\ authLastReq' = [route |-> "login", jti |-> NoJTI, stale |-> FALSE,
                               code |-> "SESSION_ALREADY_ACTIVE"]
            /\ UNCHANGED loginPc
       ELSE /\ loginPc' = [loginPc EXCEPT ![c] = "checked"]
            /\ UNCHANGED authLastReq
    /\ UNCHANGED <<loginKey, nextJti, issued, resetSince, evicted>>
    /\ UNCHANGED <<envVars, wsVars, autosaveVars, sessVars, scoreVars>>
    /\ UNCHANGED <<pubVars, gateVars, loopVars>>

\* GenerateStudentToken, second half: fresh JTI, sign, SET login:{sid}.
GenerateStudentTokenSet(c) ==
    /\ mainPc # "exited"
    /\ loginPc[c] = "checked"
    /\ nextJti <= MaxLogins
    /\ loginKey' = nextJti
    /\ nextJti' = nextJti + 1
    /\ issued' = Append(issued, nextJti)
    /\ evicted' = IF resetSince THEN evicted \cup {issued[i] : i \in 1..Len(issued)}
                  ELSE evicted
    /\ resetSince' = FALSE
    /\ loginPc' = [loginPc EXCEPT ![c] = "idle"]
    /\ authLastReq' = [route |-> "login", jti |-> nextJti, stale |-> FALSE, code |-> "OK"]
    /\ UNCHANGED <<envVars, wsVars, autosaveVars, sessVars, scoreVars>>
    /\ UNCHANGED <<pubVars, gateVars, loopVars>>

\* ResetStudentSession: DEL login:{sid}.
ResetStudentSession == NoJTI

\* Admin: POST /students/:id/reset-session.
AdminResetSession ==
    /\ mainPc = "serving"
    /\ issued # <<>>
    /\ loginKey' = ResetStudentSession
    /\ resetSince' = TRUE
    /\ UNCHANGED <<loginPc, nextJti, issued, evicted, authLastReq>>
    /\ UNCHANGED <<envVars, wsVars, autosaveVars, sessVars, scoreVars>>
    /\ UNCHANGED <<pubVars, gateVars, loopVars>>

\* The tokens clients hold.
IssuedJtis == {issued[i] : i \in 1..Len(issued)}

\* A request carrying the token j, as recorded in authLastReq.
AuthRequest(route, j, code) ==
    [route |-> route, jti |-> j, stale |-> j \in evicted, code |-> code]

\* Student group (/api/v1/student/*): RequireStudentJWT, then
\* CheckSingleDeviceSession.
StudentApiRequest ==
    \E j \in IssuedJtis :
        /\ mainPc = "serving"
        /\ authLastReq' = AuthRequest("student_api", j,
                IF ValidateStudentSession(loginKey, j) = "ok"
                THEN "OK" ELSE "SESSION_INVALIDATED")
        /\ UNCHANGED <<loginKey, loginPc, nextJti, issued, resetSince, evicted>>
        /\ UNCHANGED <<envVars, wsVars, autosaveVars, sessVars, scoreVars>>
        /\ UNCHANGED <<pubVars, gateVars, loopVars>>

\* POST /api/v1/auth/student/logout: RequireStudentJWT only, then
\* StudentLogout resets the session of the token's student.
StudentLogout ==
    \E j \in IssuedJtis :
        /\ mainPc = "serving"
        /\ loginKey' = ResetStudentSession
        /\ authLastReq' = AuthRequest("logout", j, "OK")
        /\ UNCHANGED <<loginPc, nextJti, issued, resetSince, evicted>>
        /\ UNCHANGED <<envVars, wsVars, autosaveVars, sessVars, scoreVars>>
        /\ UNCHANGED <<pubVars, gateVars, loopVars>>

\* GET /ws/v1/student/exams/:id/stream: RequireStudentWSAuth validates the
\* token's signature and type and hands the request to the WebSocket handler.
RequireStudentWSAuth ==
    \E j \in IssuedJtis :
        /\ mainPc = "serving"
        /\ authLastReq' = AuthRequest("ws", j, "OK")
        /\ UNCHANGED <<loginKey, loginPc, nextJti, issued, resetSince, evicted>>
        /\ UNCHANGED <<envVars, wsVars, autosaveVars, sessVars, scoreVars>>
        /\ UNCHANGED <<pubVars, gateVars, loopVars>>

\* ------------------------------------------------------ exam sessions
NoTime == 0 - 1                      \* NULL timestamp / missing session_start key
NoScore == 0 - 1                     \* NULL final_score
NoOrder == <<Absent>>                \* missing shuffled-questions key
ScoreScale == 100 * 100              \* a float64 score s is held as s * ScoreScale
JoinCalls == 1..NumJoinCalls
NoResult == [code |-> "", via |-> "", rs |-> TRUE, id |-> 0, startedAt |-> NoTime,
             status |-> "", token |-> <<>>, at |-> NoTime]

\* Entry tokens, as sequences of characters; JoinExamRequest binds
\* entry_token with required,min=4,max=20.
EntryTokenMin == 4
EntryTokenMax == 20
ExamEntryToken == <<"T", "O", "K", "1">>
EntryTokens == {ExamEntryToken, <<"T", "O", "K", "2">>, <<"T", "O", "K">>}

\* validator.Bind(c, &req) of the JoinExam handler.
BindJoinExamRequest(token) == Len(token) >= EntryTokenMin /\ Len(token) <= EntryTokenMax

\* A row of exams (the author is admin 1).
ExamRow(status, randomize, questionCount, scheduledStart, scheduledEnd) ==
    [status |-> status, authorID |-> 1, randomize |-> randomize,
     questionCount |-> questionCount, entryToken |-> ExamEntryToken,
     scheduledStart |-> scheduledStart, scheduledEnd |-> scheduledEnd]

\* The student's class (classes row), the student's religion and the
\* religions a classmate may have.
TheClass == [id |-> "c1", gradeLevel |-> "10", majorCode |-> "IPA"]
StudentReligion == "islam"
Religions == {"islam", "kristen"}

\* A row of exam_target_rules of TheExam; Absent is NULL.
TargetRule(classID, gradeLevel, majorCode, religion) ==
    [classID |-> classID, gradeLevel |-> gradeLevel, majorCode |-> majorCode,
     religion |-> religion]

\* FindExamsForStudent: the WHERE clause for one rule and one students row
\* of the class (of religion rel).
RuleMatchesRow(r, class, rel) ==
    \/ r.classID = class.id
    \/ /\ r.gradeLevel = Absent \/ r.gradeLevel = class.gradeLevel
       /\ r.majorCode = Absent \/ r.majorCode = class.majorCode
       /\ r.religion = Absent \/ r.religion = rel

\* FindExamsForStudent(classID) lists TheExam: the query joins the rules
\* with the class and with every students row of that class.
FindExamsForStudent(rules, class, mates) ==
    \E r \in rules : \E rel \in {StudentReligion} \cup mates : RuleMatchesRow(r, class, rel)

\* Mutant of JoinExamCheck: eligibility is checked before the entry token.
JoinExamCheckEligibilityFirst(row, t, token, eligible) ==
    IF row.status # "PUBLISHED" /\ row.status # "IN_PROGRESS"
    THEN "exam is not available for joining"
    ELSE IF row.scheduledStart # NoTime /\ t < row.scheduledStart
    THEN "exam is not available for joining"
    ELSE IF row.scheduledEnd # NoTime /\ t > row.scheduledEnd
    THEN "exam is not available for joining"
    ELSE IF ~eligible THEN "exam is not available for joining"
    ELSE IF row.entryToken # token THEN "invalid entry token"
    ELSE "nil"

\* Mutant of JoinExamCheck: the schedule window is not looked at.
JoinExamCheckIgnoringSchedule(row, t, token, eligible) ==
    IF row.status # "PUBLISHED" /\ row.status # "IN_PROGRESS"
    THEN "exam is not available for joining"
    ELSE IF row.entryToken # token THEN "invalid entry token"
    ELSE IF ~eligible THEN "exam is not available for joining"
    ELSE "nil"

\* JoinExam: the checks between GetByID and the lookup of a session.
JoinExamCheck(row, t, token, eligible) ==
    IF row.status # "PUBLISHED" /\ row.status # "IN_PROGRESS"
    THEN "exam is not available for joining"
    ELSE IF row.scheduledStart # NoTime /\ t < row.scheduledStart
    THEN "exam is not available for joining"
    ELSE IF row.scheduledEnd # NoTime /\ t > row.scheduledEnd
    THEN "exam is not available for joining"
    ELSE IF row.entryToken # token THEN "invalid entry token"
    ELSE IF ~eligible THEN "exam is not available for joining"
    ELSE "nil"

\* The JoinExam handler: the error code for the service's error.
JoinExamCode(err) ==
    CASE err = "invalid entry token" -> "INVALID_ENTRY_TOKEN"
      [] err = "exam is not available for joining" -> "EXAM_NOT_AVAILABLE"
      [] OTHER -> "INTERNAL_ERROR"

\* A JoinExam call refused at time t, before any session is looked up.
JoinRejected(code, token, t) ==
    [NoResult EXCEPT !.code = code, !.via = "rejected", !.token = token, !.at = t]

\* A row of exam_sessions for the (exam, student) pair.
SessionRow(id, startedAt, finishedAt, status, finalScore) ==
    [id |-> id, startedAt |-> startedAt, finishedAt |-> finishedAt, status |-> status,
     finalScore |-> finalScore]

\* Mutant of Create: the insert is not stopped by the row of the same pair.
CreateIgnoringConflict(rows, id, t) ==
    [inserted |-> TRUE,
     rows |-> rows \cup {SessionRow(id, t, NoTime, "IN_PROGRESS", NoScore)}]

\* Mutant of Create: ON CONFLICT DO UPDATE, which restarts the session.
CreateResettingSession(rows, id, t) ==
    [inserted |-> TRUE,
     rows |-> {SessionRow(IF rows = {} THEN id ELSE (CHOOSE r \in rows : TRUE).id,
                          t, NoTime, "IN_PROGRESS", NoScore)}]

\* Mutant of Create: ON CONFLICT DO UPDATE SET started_at = NOW() without
\* returning the row: the loser of the race restarts the session's clock.
CreateRestartingClock(rows, id, t) ==
    IF rows = {}
    THEN [inserted |-> TRUE,
          rows |-> {SessionRow(id, t, NoTime, "IN_PROGRESS", NoScore)}]
    ELSE [inserted |-> FALSE,
          rows |-> {SessionRow(r.id, t, r.finishedAt, r.status, r.finalScore) : r \in rows}]

\* ExamSessionRepository.Create: INSERT ... ON CONFLICT (exam_id, student_id)
\* DO NOTHING RETURNING id, started_at.  No row is returned on a conflict.
Create(rows, id, t) ==
    IF rows = {}
    THEN [inserted |-> TRUE,
          rows |-> {SessionRow(id, t, NoTime, "IN_PROGRESS", NoScore)}]
    ELSE [inserted |-> FALSE, rows |-> rows]

\* ExamSessionRepository.GetByExamAndStudent: the row of the pair.
GetByExamAndStudent(rows) == CHOOSE r \in rows : TRUE

\* The outcome of a JoinExam call, as the handler answers it.
JoinOk(via, r) ==
    [code |-> "OK", via |-> via, rs |-> TRUE, id |-> r.id, startedAt |-> r.startedAt,
     status |-> r.status, token |-> ExamEntryToken, at |-> NoTime]
JoinFail == [NoResult EXCEPT !.code = "INTERNAL_ERROR", !.rs = FALSE]

\* All orders of a list (rand.Shuffle).
Shuffles(list) ==
    {[i \in 1..Len(list) |-> list[p[i]]] :
        p \in {f \in [1..Len(list) -> 1..Len(list)] :
                   \A i, j \in 1..Len(list) : i # j => f[i] # f[j]}}

\* initShuffledQuestions: the lists it may store for the student.
ShuffledOrders(cfg, payload) ==
    {IF cfg.questionCount > 0 /\ cfg.questionCount < Len(o)
     THEN SubSeq(o, 1, cfg.questionCount) ELSE o :
        o \in IF cfg.randomize THEN Shuffles(payload) ELSE {payload}}

\* The clock advances.
Tick ==
    /\ now < MaxClock
    /\ now' = now + 1
    /\ UNCHANGED <<exam, examPayloadKey, answerKeyHash, examSessions, nextSessionId, joinPc,
                   joinResult, sessionStartKey, activeExamKey, shuffledKey,
                   persistQuestionOrderQueue, scoreVars>>
    /\ UNCHANGED <<envVars, wsVars, autosaveVars, authVars>>
    /\ UNCHANGED <<pubVars, gateVars, loopVars>>

\* The JoinExam handler and JoinExam up to the lookup of an existing
\* session: the request is bound, the exam is read and checked.  An existing
\* session is returned after its CS keys are written again.
JoinSelect(c, token) ==
    /\ mainPc = "serving"
    /\ joinPc[c] = "idle"
    /\ IF ~BindJoinExamRequest(token)
       THEN /\ joinPc' = [joinPc EXCEPT ![c] = "done"]
            /\ joinResult' = [joinResult EXCEPT ![c] = JoinRejected("VALIDATION_ERROR", token, now)]
            /\ UNCHANGED <<sessionStartKey, activeExamKey>>
       ELSE IF ~rsUp
       THEN /\ joinPc' = [joinPc EXCEPT ![c] = "done"]
            /\ joinResult' = [joinResult EXCEPT ![c] = JoinFail]
            /\ UNCHANGED <<sessionStartKey, activeExamKey>>
       ELSE IF JoinExamCheck(exam[TheExam], now, token,
                             FindExamsForStudent(targetRules, TheClass, classmates)) # "nil"
       THEN /\ joinPc' = [joinPc EXCEPT ![c] = "done"]
            /\ joinResult' = [joinResult EXCEPT ![c] =
                   JoinRejected(JoinExamCode(JoinExamCheck(exam[TheExam], now, token,
                       FindExamsForStudent(targetRules, TheClass, classmates))), token, now)]
            /\ UNCHANGED <<sessionStartKey, activeExamKey>>
       ELSE IF examSessions # {}
       THEN /\ joinPc' = [joinPc EXCEPT ![c] = "done"]
            /\ joinResult' = [joinResult EXCEPT
                                ![c] = JoinOk("existing", GetByExamAndStudent(examSessions))]
            /\ sessionStartKey' = GetByExamAndStudent(examSessions).startedAt
            /\ activeExamKey' = TRUE
       ELSE /\ joinPc' = [joinPc EXCEPT ![c] = "selected"]
            /\ UNCHANGED <<joinResult, sessionStartKey, activeExamKey>>
    /\ UNCHANGED <<now, exam, examPayloadKey, answerKeyHash, examSessions, nextSessionId,
                   shuffledKey, persistQuestionOrderQueue, scoreVars>>
    /\ UNCHANGED <<envVars, wsVars, autosaveVars, authVars>>
    /\ UNCHANGED <<pubVars, gateVars, loopVars>>

\* JoinExam from Create on: the inserted session gets its CS keys and its
\* shuffled list; a conflicting insert returns the session that exists.
JoinCreate(c) ==
    /\ mainPc # "exited"
    /\ joinPc[c] = "selected"
    /\ joinPc' = [joinPc EXCEPT ![c] = "done"]
    /\ IF ~rsUp
       THEN /\ joinResult' = [joinResult EXCEPT ![c] = JoinFail]
            /\ UNCHANGED <<examSessions, nextSessionId, sessionStartKey, activeExamKey,
                           shuffledKey, persistQuestionOrderQueue>>
       ELSE LET made == Create(examSessions, nextSessionId, now)
            IN  /\ examSessions' = made.rows
                /\ nextSessionId' = nextSessionId + 1
                /\ IF made.inserted
                   THEN /\ joinResult' = [joinResult EXCEPT ![c] =
                               JoinOk("created",
                                      SessionRow(nextSessionId, now, NoTime, "", NoScore))]
                        /\ sessionStartKey' = now
                        /\ activeExamKey' = TRUE
                        /\ IF examPayloadKey[TheExam] = NoOrder
                           THEN UNCHANGED <<shuffledKey, persistQuestionOrderQueue>>
                           ELSE \E o \in ShuffledOrders(exam[TheExam], examPayloadKey[TheExam]) :
                                   /\ shuffledKey' = o
                                   /\ persistQuestionOrderQueue' =
                                          Append(persistQuestionOrderQueue, o)
                   ELSE /\ joinResult' = [joinResult EXCEPT ![c] =
                               JoinOk("conflict", GetByExamAndStudent(made.rows))]
                        /\ UNCHANGED <<sessionStartKey, activeExamKey, shuffledKey,
                                       persistQuestionOrderQueue>>
    /\ UNCHANGED <<now, exam, examPayloadKey, answerKeyHash, scoreVars>>
    /\ UNCHANGED <<envVars, wsVars, autosaveVars, authVars>>
    /\ UNCHANGED <<pubVars, gateVars, loopVars>>

\* VerifyActiveSession: the active_exam key, else the session row.
VerifyActiveSession(activeKey, rsOk, rows) ==
    IF activeKey THEN "ok"
    ELSE IF ~rsOk \/ rows = {} THEN "no active session"
    ELSE IF GetByExamAndStudent(rows).status = "COMPLETED"
         THEN "exam session is already completed"
    ELSE "ok"

\* ExamWebSocketStream up to the command loop.
WsConnect ==
    /\ mainPc = "serving"
    /\ ~wsConnected
    /\ IF VerifyActiveSession(activeExamKey, rsUp, examSessions) = "ok"
       THEN /\ wsConnected' = TRUE
            /\ activeExamKey' = TRUE
            /\ UNCHANGED wsLastEvent
       ELSE /\ wsLastEvent' = [event |-> "error", status |-> "no active session for this exam"]
            /\ UNCHANGED <<wsConnected, activeExamKey>>
    /\ UNCHANGED <<wsFrames, answersHash, lastFrame>>
    /\ UNCHANGED <<now, exam, examPayloadKey, answerKeyHash, examSessions, nextSessionId, joinPc,
                   joinResult, sessionStartKey, shuffledKey, persistQuestionOrderQueue,
                   scoreVars>>
    /\ UNCHANGED <<envVars, autosaveVars, authVars>>
    /\ UNCHANGED <<pubVars, gateVars, loopVars>>

\* GET /student/exams/:id/state: the handler's VerifyActiveSession, then
\* GetExamState: the exam-level keys are read from CS, session_start from
\* CS or, when the key is missing, from the session row (and written back).
NoStateResult == [code |-> "", err |-> "", healed |-> FALSE]
StateResult(code, err, healed) == [code |-> code, err |-> err, healed |-> healed]

GetExamState ==
    /\ mainPc = "serving"
    /\ IF VerifyActiveSession(activeExamKey, rsUp, examSessions) # "ok"
       THEN /\ stateResult' = StateResult("FORBIDDEN", "no active session", FALSE)
            /\ UNCHANGED <<sessionStartKey, activeExamKey>>
       ELSE /\ activeExamKey' = TRUE
            /\ IF <<TheExam, "duration">> \notin examStateKeys
               THEN /\ stateResult' = StateResult("INTERNAL_ERROR", "get exam duration", FALSE)
                    /\ UNCHANGED sessionStartKey
               ELSE IF sessionStartKey = NoTime /\ (~rsUp \/ examSessions = {})
               THEN /\ stateResult' = StateResult("INTERNAL_ERROR",
                                                  "session not found in cache or db", FALSE)
                    /\ UNCHANGED sessionStartKey
               ELSE /\ sessionStartKey' =
                          IF sessionStartKey = NoTime
                          THEN GetByExamAndStudent(examSessions).startedAt
                          ELSE sessionStartKey
                    /\ stateResult' =
                          IF <<TheExam, "cheat_rules">> \notin examStateKeys
                          THEN StateResult("INTERNAL_ERROR", "get cheat rules",
                                           sessionStartKey = NoTime)
                          ELSE StateResult("OK", "nil", sessionStartKey = NoTime)
    /\ UNCHANGED <<targetRules, classmates, lobbyResult, midnight, orderResult, loopVars>>
    /\ UNCHANGED <<now, exam, examPayloadKey, answerKeyHash, examSessions, nextSessionId, joinPc,
                   joinResult, shuffledKey, persistQuestionOrderQueue>>
    /\ UNCHANGED <<envVars, wsVars, autosaveVars, authVars, scoreVars, pubVars>>

\* CS loses the session_start key (eviction, or a restart of CS).
EvictSessionStart ==
    /\ sessionStartKey # NoTime
    /\ sessionStartKey' = NoTime
    /\ UNCHANGED <<now, exam, examPayloadKey, answerKeyHash, examSessions, nextSessionId, joinPc,
                   joinResult, activeExamKey, shuffledKey, persistQuestionOrderQueue>>
    /\ UNCHANGED <<envVars, wsVars, autosaveVars, authVars, scoreVars, pubVars, gateVars, loopVars>>

\* ---------------------------------------------------------------- grading
RECURSIVE CountCorrect(_, _, _)
\* The grading loop: one pass over the student's list.
CountCorrect(orderedIDs, answerKey, studentAnswersMap) ==
    IF orderedIDs = <<>> THEN 0
    ELSE LET qID == Head(orderedIDs)
             hit == /\ qID \in DOMAIN answerKey
                    /\ answerKey[qID] # Absent
                    /\ qID \in DOMAIN studentAnswersMap
                    /\ studentAnswersMap[qID] # Absent
                    /\ studentAnswersMap[qID] = answerKey[qID]
         IN  (IF hit THEN 1 ELSE 0)
             + CountCorrect(Tail(orderedIDs), answerKey, studentAnswersMap)

\* Mutant of GradeScore: the denominator is the size of the answer key.
GradeScoreOverAnswerKey(orderedIDs, answerKey, studentAnswersMap) ==
    LET total == Cardinality({q \in DOMAIN answerKey : answerKey[q] # Absent})
    IN  IF total > 0
        THEN (CountCorrect(orderedIDs, answerKey, studentAnswersMap) * 100 * ScoreScale)
                 \div total
        ELSE 0

\* Mutant of GradeScore: the score also depends on how many frames the
\* connection has carried.
GradeScoreByAttempt(orderedIDs, answerKey, studentAnswersMap) ==
    LET total == Len(orderedIDs) + wsFrames
    IN  IF total > 0
        THEN (CountCorrect(orderedIDs, answerKey, studentAnswersMap) * 100 * ScoreScale)
                 \div total
        ELSE 0

\* score = correct / total * 100, and 0 for an empty list.
GradeScore(orderedIDs, answerKey, studentAnswersMap) ==
    LET total == Len(orderedIDs)
    IN  IF total > 0
        THEN (CountCorrect(orderedIDs, answerKey, studentAnswersMap) * 100 * ScoreScale)
                 \div total
        ELSE 0

\* GetShuffledQuestionIDs: the cached list, else the session row's
\* question_order as GetByExamAndStudent reads it (it does not select it).
GetShuffledQuestionIDs(key, rsOk, rows) ==
    IF key # NoOrder THEN [err |-> FALSE, ids |-> key]
    ELSE IF ~rsOk \/ rows = {} THEN [err |-> TRUE, ids |-> <<>>]
    ELSE [err |-> FALSE, ids |-> <<>>]

\* handleSubmit: grade from CS, enqueue the score, answer with graded.
HandleSubmit ==
    /\ mainPc # "exited"
    /\ wsConnected
    /\ wsFrames < MaxFrames
    /\ wsFrames' = wsFrames + 1
    /\ LET got == GetShuffledQuestionIDs(shuffledKey, rsUp, examSessions)
           score == GradeScore(got.ids, answerKeyHash[TheExam], answersHash)
       IN  IF \A q \in DOMAIN answerKeyHash[TheExam] : answerKeyHash[TheExam][q] = Absent
           THEN /\ wsLastEvent' = [event |-> "error", status |-> "grading failed"]
                /\ UNCHANGED <<persistScoresQueue, gradedScores>>
           ELSE IF got.err
           THEN /\ wsLastEvent' = [event |-> "error", status |-> "failed to get question subset"]
                /\ UNCHANGED <<persistScoresQueue, gradedScores>>
           ELSE /\ persistScoresQueue' = Append(persistScoresQueue, score)
                /\ gradedScores' = gradedScores \cup {score}
                /\ wsLastEvent' = [event |-> "graded", status |-> "completed", score |-> score]
    /\ UNCHANGED <<wsConnected, answersHash, lastFrame, swBatch, swPc, writtenScores>>
    /\ UNCHANGED <<now, exam, examPayloadKey, answerKeyHash, examSessions, nextSessionId, joinPc,
                   joinResult, sessionStartKey, activeExamKey, shuffledKey,
                   persistQuestionOrderQueue>>
    /\ UNCHANGED <<envVars, autosaveVars, authVars>>
    /\ wsWritten' = wsWritten + 1
    /\ wsLastFrame' = "submit"
    /\ wsSilentFor' = 0
    /\ UNCHANGED monitor
    /\ UNCHANGED <<pubVars, gateVars, persistCheatsQueue>>

\* --------------------------------------------------------- ScoringWorker
\* final_score is DECIMAL(5,2): the score in hundredths, rounded.
ToDecimal52(score) == (score * 100 + ScoreScale \div 2) \div ScoreScale

\* UPDATE exam_sessions SET status = 'COMPLETED', final_score, finished_at.
CompleteRows(rows, score, t) ==
    {SessionRow(r.id, r.startedAt, t, "COMPLETED", ToDecimal52(score)) : r \in rows}

\* bulkUpdateScores: one UPDATE ... FROM UNNEST; a session named by several
\* items of the batch takes the score of any one of them.
bulkUpdateScores(execOk, rows, batch, pick, t) ==
    IF execOk THEN [err |-> FALSE, rows |-> CompleteRows(rows, batch[pick], t)]
    ELSE [err |-> TRUE, rows |-> rows]

\* The RPUSH of a score whose single write failed.
scoreRequeue(ctxDone, queue, score) ==
    IF ctxDone THEN queue ELSE Append(queue, score)

RECURSIVE scoreFallback(_, _, _, _, _)
\* The fallback loop of flushSafe: persistSingle per item, RPUSH on failure.
scoreFallback(ctxDone, execOk, st, batch, t) ==
    IF batch = <<>> THEN st
    ELSE scoreFallback(ctxDone, execOk,
             IF execOk
             THEN [st EXCEPT !.rows = CompleteRows(st.rows, Head(batch), t),
                             !.written = st.written \cup {ToDecimal52(Head(batch))}]
             ELSE [st EXCEPT !.queue = scoreRequeue(ctxDone, st.queue, Head(batch))],
             Tail(batch), t)

\* ScoringWorker.flushSafe on a batch that is not empty.
scoreFlushSafe(ctxDone, rsFirst, rsLater, st, batch, pick, t) ==
    LET bulk == bulkUpdateScores(rsFirst /\ ~ctxDone, st.rows, batch, pick, t)
    IN  IF ~bulk.err
        THEN [st EXCEPT !.rows = bulk.rows,
                        !.written = IF st.rows = {} THEN st.written
                                    ELSE st.written \cup {ToDecimal52(batch[pick])},
                        !.answers = [q \in DOMAIN st.answers |-> Absent]]
        ELSE scoreFallback(ctxDone, rsLater /\ ~ctxDone, st, batch, t)

ScoreFlushState == [rows |-> examSessions, queue |-> persistScoresQueue,
                    written |-> writtenScores, answers |-> answersHash]

\* Start, top of the loop: the batch is due (size or timeout) and is flushed
\* with the worker's context.
SwFlush ==
    /\ mainPc # "exited"
    /\ swPc = "check"
    /\ swBatch # <<>>
    /\ \E rsLater \in BOOLEAN, pick \in 1..Len(swBatch) :
          LET st == scoreFlushSafe(workerCtxDone, rsUp, rsLater, ScoreFlushState, swBatch,
                                   pick, now)
          IN  /\ examSessions' = st.rows
              /\ persistScoresQueue' = st.queue
              /\ writtenScores' = st.written
              /\ answersHash' = st.answers
              /\ rsUp' = rsLater
    /\ swBatch' = <<>>
    /\ UNCHANGED <<swPc, gradedScores>>
    /\ UNCHANGED <<now, exam, examPayloadKey, answerKeyHash, nextSessionId, joinPc, joinResult,
                   sessionStartKey, activeExamKey, shuffledKey, persistQuestionOrderQueue>>
    /\ UNCHANGED <<workerCtxDone, mainPc, wsConnected, wsFrames, wsLastEvent, lastFrame, autosaveVars,
                   authVars>>
    /\ UNCHANGED <<pubVars, gateVars, loopVars>>

\* Start, select: the context is live, BLPop is called.
SwSelect ==
    /\ mainPc # "exited"
    /\ swPc = "check"
    /\ Len(swBatch) < ScoreBatchSize
    /\ ~workerCtxDone
    /\ swPc' = "blpop"
    /\ UNCHANGED <<persistScoresQueue, swBatch, gradedScores, writtenScores>>
    /\ UNCHANGED <<now, exam, examPayloadKey, answerKeyHash, examSessions, nextSessionId, joinPc,
                   joinResult, sessionStartKey, activeExamKey, shuffledKey,
                   persistQuestionOrderQueue>>
    /\ UNCHANGED <<envVars, wsVars, autosaveVars, authVars>>
    /\ UNCHANGED <<pubVars, gateVars, loopVars>>

\* Start, select: the context is done; the batch is flushed with a
\* background context and Start returns.
SwShutdown ==
    /\ mainPc # "exited"
    /\ swPc = "check"
    /\ Len(swBatch) < ScoreBatchSize
    /\ workerCtxDone
    /\ IF swBatch = <<>>
       THEN UNCHANGED <<examSessions, persistScoresQueue, writtenScores, answersHash, rsUp>>
       ELSE \E rsLater \in BOOLEAN, pick \in 1..Len(swBatch) :
               LET st == scoreFlushSafe(FALSE, rsUp, rsLater, ScoreFlushState, swBatch,
                                        pick, now)
               IN  /\ examSessions' = st.rows
                   /\ persistScoresQueue' = st.queue
                   /\ writtenScores' = st.written
                   /\ answersHash' = st.answers
                   /\ rsUp' = rsLater
    /\ swBatch' = <<>>
    /\ swPc' = "stopped"
    /\ UNCHANGED gradedScores
    /\ UNCHANGED <<now, exam, examPayloadKey, answerKeyHash, nextSessionId, joinPc, joinResult,
                   sessionStartKey, activeExamKey, shuffledKey, persistQuestionOrderQueue>>
    /\ UNCHANGED <<workerCtxDone, mainPc, wsConnected, wsFrames, wsLastEvent, lastFrame, autosaveVars,
                   authVars>>
    /\ UNCHANGED <<pubVars, gateVars, loopVars>>

\* BLPop returns: an item joins the batch; a timeout or an error (the
\* context was cancelled meanwhile) goes round the loop.
SwBLPop ==
    /\ mainPc # "exited"
    /\ swPc = "blpop"
    /\ swPc' = "check"
    /\ \E popped \in BOOLEAN :
          /\ popped => persistScoresQueue # <<>>
          /\ ~popped => (persistScoresQueue = <<>> \/ workerCtxDone)
          /\ IF popped
             THEN /\ swBatch' = Append(swBatch, Head(persistScoresQueue))
                  /\ persistScoresQueue' = Tail(persistScoresQueue)
             ELSE UNCHANGED <<swBatch, persistScoresQueue>>
    /\ UNCHANGED <<gradedScores, writtenScores>>
    /\ UNCHANGED <<now, exam, examPayloadKey, answerKeyHash, examSessions, nextSessionId, joinPc,
                   joinResult, sessionStartKey, activeExamKey, shuffledKey,
                   persistQuestionOrderQueue>>
    /\ UNCHANGED <<envVars, wsVars, autosaveVars, authVars>>
    /\ UNCHANGED <<pubVars, gateVars, loopVars>>

\* ------------------------------------------------------------------- lobby
NoLobby == [code |-> "", listed |-> FALSE, lobbyStatus |-> "", at |-> NoTime]

\* time.Time.Date() of two clock times: the same calendar day.
SameDate(a, b) == midnight = NoTime \/ (a < midnight <=> b < midnight)

\* GetLobby: the entry of one exam the student is eligible for, or "skip" if
\* the loop continues without appending it.
LobbyStatusOf(row, sessions, t) ==
    IF row.status # "PUBLISHED" /\ row.status # "IN_PROGRESS" THEN "skip"
    ELSE IF sessions # {}
    THEN IF GetByExamAndStudent(sessions).status = "COMPLETED"
         THEN "COMPLETED" ELSE "IN_PROGRESS"
    ELSE IF row.scheduledEnd # NoTime /\ t > row.scheduledEnd THEN "CLOSED"
    ELSE IF row.scheduledStart # NoTime /\ row.scheduledStart > t
    THEN IF SameDate(row.scheduledStart, t) THEN "UPCOMING" ELSE "skip"
    ELSE "AVAILABLE"

\* The GetLobby handler and service: the exams of FindExamsForStudent, each
\* with its lobby status.
GetLobby ==
    /\ mainPc = "serving"
    /\ lobbyResult' =
          IF ~rsUp THEN [NoLobby EXCEPT !.code = "INTERNAL_ERROR", !.at = now]
          ELSE IF ~FindExamsForStudent(targetRules, TheClass, classmates)
               \/ LobbyStatusOf(exam[TheExam], examSessions, now) = "skip"
          THEN [NoLobby EXCEPT !.code = "OK", !.at = now]
          ELSE [code |-> "OK", listed |-> TRUE,
                lobbyStatus |-> LobbyStatusOf(exam[TheExam], examSessions, now), at |-> now]
    /\ UNCHANGED <<targetRules, classmates, stateResult, midnight, orderResult, loopVars>>
    /\ UNCHANGED <<envVars, wsVars, autosaveVars, authVars, sessVars, scoreVars, pubVars>>

\* ------------------------------------------------- the student's question order
NoOrderResult == [err |-> "", ids |-> <<>>, source |-> ""]

\* A call of GetShuffledQuestionIDs (by GetExamPaper or handleSubmit): a list
\* read from the session row is written back to CS if it is not empty.
GetShuffledQuestionIDsCall ==
    /\ mainPc = "serving"
    /\ LET got == GetShuffledQuestionIDs(shuffledKey, rsUp, examSessions)
       IN  /\ orderResult' =
                 [err |-> IF got.err THEN "failed to fetch session from DB" ELSE "nil",
                  ids |-> got.ids,
                  source |-> IF shuffledKey # NoOrder THEN "cache" ELSE "db"]
           /\ shuffledKey' = IF shuffledKey = NoOrder /\ ~got.err /\ Len(got.ids) > 0
                             THEN got.ids ELSE shuffledKey
    /\ UNCHANGED <<now, exam, examPayloadKey, answerKeyHash, examSessions, nextSessionId, joinPc,
                   joinResult, sessionStartKey, activeExamKey, persistQuestionOrderQueue>>
    /\ UNCHANGED <<targetRules, classmates, stateResult, lobbyResult, midnight, loopVars>>
    /\ UNCHANGED <<envVars, wsVars, autosaveVars, authVars, scoreVars, pubVars>>

\* CS loses the shuffled_questions key (eviction, or a restart of CS).
EvictShuffledQuestions ==
    /\ shuffledKey # NoOrder
    /\ shuffledKey' = NoOrder
    /\ UNCHANGED <<now, exam, examPayloadKey, answerKeyHash, examSessions, nextSessionId, joinPc,
                   joinResult, sessionStartKey, activeExamKey, persistQuestionOrderQueue>>
    /\ UNCHANGED <<envVars, wsVars, autosaveVars, authVars, scoreVars, pubVars, gateVars, loopVars>>

\* ---------------------------------------- exam publishing and the cache
\* An admin as the handlers see it: claims.UserID and whether
\* claims.Permissions holds exams:write_all.
Admins == [id : {1, 2}, writeAll : BOOLEAN]
NoAdmin == [id |-> 0, writeAll |-> FALSE]
NoAnswerKey == [q \in BankQIDs |-> Absent]  \* exam:{eid}:key does not exist
NoWarm == [caller |-> "none", exam |-> "", actor |-> NoAdmin, step |-> "", list |-> <<>>]
NoAdminResult == [op |-> "none", exam |-> "", actor |-> NoAdmin, status |-> "",
                  questions |-> 0, err |-> "", code |-> "", wrote |-> FALSE]
BankContents == {<<>>, <<"q1", "q2">>}   \* what ReplaceAll may store for a bank

\* The rest of sessVars: what publishing leaves alone.
sessOther == <<now, examSessions, nextSessionId, joinPc, joinResult, sessionStartKey,
               activeExamKey, shuffledKey, persistQuestionOrderQueue>>

\* The correct option of each question (questions.correct_option).
CorrectOption(q) == IF q = "q1" THEN "A" ELSE "B"

\* The answerKey map WarmExamCache builds from the questions.
AnswerKeyOf(list) ==
    [q \in BankQIDs |->
        IF \E i \in 1..Len(list) : list[i] = q THEN CorrectOption(q) ELSE Absent]

\* PublishExam, RefreshExamCache: authorFilter.
authorFilter(admin) == IF admin.writeAll THEN 0 ELSE admin.id

\* Publish: the checks after GetByID.  Both errors are made on the spot
\* (errors.New, fmt.Errorf), they are not the package's sentinel errors.
PublishCheck(row, authorID) ==
    IF row.authorID # authorID THEN "not the author of this exam"
    ELSE IF row.status # "DRAFT" THEN "exam status is not DRAFT"
    ELSE "nil"

\* RefreshCache: the checks after GetByID.
RefreshCheck(row, authorID) ==
    IF authorID # 0 /\ row.authorID # authorID THEN "ErrNotExamAuthor"
    ELSE IF row.status # "PUBLISHED" THEN "ErrExamNotPublished"
    ELSE "nil"

\* WarmExamCache up to the pipeline: ListByExam and the empty check.
WarmExamCacheCheck(rsOk, list) ==
    IF ~rsOk THEN "list questions"
    ELSE IF list = <<>> THEN "ErrNoQuestions"
    ELSE "nil"

\* PublishExam: the error code of the answer.
PublishExamCode(err) ==
    CASE err = "nil" -> "OK"
      [] err = "ErrNotExamAuthor" -> "NOT_EXAM_AUTHOR"
      [] err = "ErrNoQuestions" -> "NO_QUESTIONS"
      [] err = "ErrExamNotDraft" -> "EXAM_NOT_AVAILABLE"
      [] OTHER -> "INTERNAL_ERROR"

\* RefreshExamCache: the error code of the answer.
RefreshExamCacheCode(err) ==
    CASE err = "nil" -> "OK"
      [] err = "ErrNotExamAuthor" -> "NOT_EXAM_AUTHOR"
      [] err = "ErrExamNotPublished" -> "EXAM_NOT_PUBLISHED"
      [] err = "ErrNoQuestions" -> "NO_QUESTIONS"
      [] OTHER -> "INTERNAL_ERROR"

\* A WarmExamCache call that has reached its pipeline.
WarmCall(caller, e, admin, list) ==
    [caller |-> caller, exam |-> e, actor |-> admin, step |-> "set", list |-> list]

\* The answer to an admin request: the exam row and the questions the call
\* found, its error, its code and whether it wrote to CS or RS.
AdminAnswer(op, e, admin, status, n, err, code, wrote) ==
    [op |-> op, exam |-> e, actor |-> admin, status |-> status, questions |-> n,
     err |-> err, code |-> code, wrote |-> wrote]

\* POST /exams/:id/publish: PublishExam and Publish up to the pipeline of
\* WarmExamCache (one admin request is served at a time).
PublishExam(e, admin) ==
    /\ mainPc = "serving"
    /\ warmPc = NoWarm
    /\ LET chk == PublishCheck(exam[e], authorFilter(admin))
           err == IF ~rsUp THEN "get exam"
                  ELSE IF chk # "nil" THEN chk
                  ELSE WarmExamCacheCheck(rsUp, questions[e])
       IN  IF err = "nil"
           THEN /\ warmPc' = WarmCall("publish", e, admin, questions[e])
                /\ UNCHANGED adminResult
           ELSE /\ adminResult' = AdminAnswer("publish", e, admin,
                                     IF rsUp THEN exam[e].status ELSE "",
                                     IF rsUp THEN Len(questions[e]) ELSE 0,
                                     err, PublishExamCode(err), FALSE)
                /\ UNCHANGED warmPc
    /\ UNCHANGED <<questions, examStateKeys, prewarmPc>>
    /\ UNCHANGED <<exam, examPayloadKey, answerKeyHash, sessOther>>
    /\ UNCHANGED <<envVars, wsVars, autosaveVars, authVars, scoreVars, gateVars, loopVars>>

\* POST /exams/:id/refresh-cache: RefreshExamCache and RefreshCache up to
\* the pipeline of WarmExamCache.
RefreshExamCache(e, admin) ==
    /\ mainPc = "serving"
    /\ warmPc = NoWarm
    /\ LET chk == RefreshCheck(exam[e], authorFilter(admin))
           err == IF ~rsUp THEN "get exam"
                  ELSE IF chk # "nil" THEN chk
                  ELSE WarmExamCacheCheck(rsUp, questions[e])
       IN  IF err = "nil"
           THEN /\ warmPc' = WarmCall("refresh", e, admin, questions[e])
                /\ UNCHANGED adminResult
           ELSE /\ adminResult' = AdminAnswer("refresh", e, admin,
                                     IF rsUp THEN exam[e].status ELSE "",
                                     IF rsUp THEN Len(questions[e]) ELSE 0,
                                     err, RefreshExamCacheCode(err), FALSE)
                /\ UNCHANGED warmPc
    /\ UNCHANGED <<questions, examStateKeys, prewarmPc>>
    /\ UNCHANGED <<exam, examPayloadKey, answerKeyHash, sessOther>>
    /\ UNCHANGED <<envVars, wsVars, autosaveVars, authVars, scoreVars, gateVars, loopVars>>

\* The pipeline is rdb.Pipeline(), not a MULTI/EXEC transaction: its three
\* commands reach CS in order, each applied on its own, and commands of other
\* clients may be served between them.
\* First command: SET exam:{eid}:payload.
WarmSet ==
    /\ mainPc # "exited"
    /\ warmPc.step = "set"
    /\ examPayloadKey' = [examPayloadKey EXCEPT ![warmPc.exam] = warmPc.list]
    /\ warmPc' = [warmPc EXCEPT !.step = "del"]
    /\ UNCHANGED <<questions, examStateKeys, adminResult, prewarmPc>>
    /\ UNCHANGED <<exam, answerKeyHash, sessOther>>
    /\ UNCHANGED <<envVars, wsVars, autosaveVars, authVars, scoreVars, gateVars, loopVars>>

\* Second command: DEL exam:{eid}:key.
WarmDel ==
    /\ mainPc # "exited"
    /\ warmPc.step = "del"
    /\ answerKeyHash' = [answerKeyHash EXCEPT ![warmPc.exam] = NoAnswerKey]
    /\ warmPc' = [warmPc EXCEPT !.step = "hset"]
    /\ UNCHANGED <<questions, examStateKeys, adminResult, prewarmPc>>
    /\ UNCHANGED <<exam, examPayloadKey, sessOther>>
    /\ UNCHANGED <<envVars, wsVars, autosaveVars, authVars, scoreVars, gateVars, loopVars>>

\* Mutant of PrewarmAfterFailure: the first failure ends the loop.
PrewarmAbortOnFailure(todo) == <<>>

\* PrewarmAllCaches: a failed WarmExamCache is logged and the loop goes on
\* with the next exam.
PrewarmAfterFailure(todo) == Tail(todo)

\* Third command: HSET exam:{eid}:key, after which Exec and WarmExamCache
\* return: RefreshCache answers, PrewarmAllCaches goes on with the next
\* exam, Publish goes on to UpdateStatus.
WarmHSet ==
    /\ mainPc # "exited"
    /\ warmPc.step = "hset"
    /\ answerKeyHash' = [answerKeyHash EXCEPT ![warmPc.exam] = AnswerKeyOf(warmPc.list)]
    /\ CASE warmPc.caller = "publish" ->
              /\ warmPc' = [warmPc EXCEPT !.step = "update"]
              /\ UNCHANGED <<adminResult, prewarmPc>>
         [] warmPc.caller = "refresh" ->
              /\ warmPc' = NoWarm
              /\ adminResult' = AdminAnswer("refresh", warmPc.exam, warmPc.actor, "PUBLISHED",
                                            Len(warmPc.list), "nil", "OK", TRUE)
              /\ UNCHANGED prewarmPc
         [] OTHER ->
              /\ warmPc' = NoWarm
              /\ prewarmPc' = [prewarmPc EXCEPT !.todo = Tail(prewarmPc.todo),
                                                !.warmed = prewarmPc.warmed \cup {warmPc.exam}]
              /\ UNCHANGED adminResult
    /\ UNCHANGED <<questions, examStateKeys>>
    /\ UNCHANGED <<exam, examPayloadKey, sessOther>>
    /\ UNCHANGED <<envVars, wsVars, autosaveVars, authVars, scoreVars, gateVars, loopVars>>

\* Publish after WarmExamCache: UpdateStatus(PUBLISHED); its failure is
\* returned with the cache already written.
PublishUpdateStatus ==
    /\ mainPc # "exited"
    /\ warmPc.step = "update"
    /\ warmPc' = NoWarm
    /\ IF rsUp
       THEN /\ exam' = [exam EXCEPT ![warmPc.exam].status = "PUBLISHED"]
            /\ adminResult' = AdminAnswer("publish", warmPc.exam, warmPc.actor, "DRAFT",
                                          Len(warmPc.list), "nil", PublishExamCode("nil"), TRUE)
       ELSE /\ adminResult' = AdminAnswer("publish", warmPc.exam, warmPc.actor, "DRAFT",
                                          Len(warmPc.list), "update status",
                                          PublishExamCode("update status"), TRUE)
            /\ UNCHANGED exam
    /\ UNCHANGED <<questions, examStateKeys, prewarmPc>>
    /\ UNCHANGED <<examPayloadKey, answerKeyHash, sessOther>>
    /\ UNCHANGED <<envVars, wsVars, autosaveVars, authVars, scoreVars, gateVars, loopVars>>

\* PUT /qbanks/:id/questions: QuestionService.ReplaceAll, whatever the status
\* of the exams that use the bank.
ReplaceAll(e, list) ==
    /\ mainPc = "serving"
    /\ rsUp
    /\ questions[e] # list
    /\ questions' = [questions EXCEPT ![e] = list]
    /\ UNCHANGED <<examStateKeys, warmPc, adminResult, prewarmPc>>
    /\ UNCHANGED <<envVars, wsVars, autosaveVars, authVars, sessVars, scoreVars, gateVars, loopVars>>

\* ListPublished: ORDER BY created_at DESC (e2 was created after e1).
CreatedDesc == <<"e2", "e1">>
ListPublished(rows) == SelectSeq(CreatedDesc, LAMBDA e : rows[e].status = "PUBLISHED")

\* PrewarmAllCaches as main runs it before the HTTP server starts.
Prewarm(pc, todo, listed, warmed, skipped, err) ==
    [pc |-> pc, todo |-> todo, listed |-> listed, warmed |-> warmed, skipped |-> skipped,
     err |-> err]

\* PrewarmAllCaches: ListPublished.  Its error is returned to main, which
\* logs it and starts the server; so does an empty list.
PrewarmList ==
    /\ mainPc = "starting"
    /\ prewarmPc.pc = "idle"
    /\ IF ~rsUp
       THEN /\ prewarmPc' = Prewarm("returned", <<>>, {}, {}, {}, "list published exams")
            /\ mainPc' = "serving"
       ELSE IF ListPublished(exam) = <<>>
       THEN /\ prewarmPc' = Prewarm("returned", <<>>, {}, {}, {}, "nil")
            /\ mainPc' = "serving"
       ELSE /\ prewarmPc' = Prewarm("warming", ListPublished(exam),
                                    {e \in Exams : exam[e].status = "PUBLISHED"}, {}, {}, "nil")
            /\ UNCHANGED mainPc
    /\ UNCHANGED <<questions, examStateKeys, warmPc, adminResult>>
    /\ UNCHANGED <<rsUp, workerCtxDone, wsVars, autosaveVars, authVars, sessVars, scoreVars,
                   gateVars, loopVars>>

\* PrewarmAllCaches, loop body: WarmExamCache of the next exam up to its
\* pipeline; an exam that cannot be warmed is skipped.
PrewarmNext ==
    /\ prewarmPc.pc = "warming"
    /\ warmPc = NoWarm
    /\ prewarmPc.todo # <<>>
    /\ LET e == Head(prewarmPc.todo)
       IN  IF WarmExamCacheCheck(rsUp, questions[e]) = "nil"
           THEN /\ warmPc' = WarmCall("prewarm", e, NoAdmin, questions[e])
                /\ UNCHANGED prewarmPc
           ELSE /\ prewarmPc' = [prewarmPc EXCEPT !.todo = PrewarmAfterFailure(prewarmPc.todo),
                                                  !.skipped = prewarmPc.skipped \cup {e}]
                /\ UNCHANGED warmPc
    /\ UNCHANGED <<questions, examStateKeys, adminResult>>
    /\ UNCHANGED <<envVars, wsVars, autosaveVars, authVars, sessVars, scoreVars, gateVars, loopVars>>

\* PrewarmAllCaches returns nil after the loop and main starts the server.
PrewarmReturn ==
    /\ prewarmPc.pc = "warming"
    /\ warmPc = NoWarm
    /\ prewarmPc.todo = <<>>
    /\ prewarmPc' = [prewarmPc EXCEPT !.pc = "returned"]
    /\ mainPc' = "serving"
    /\ UNCHANGED <<questions, examStateKeys, warmPc, adminResult>>
    /\ UNCHANGED <<rsUp, workerCtxDone, wsVars, autosaveVars, authVars, sessVars, scoreVars,
                   gateVars, loopVars>>

\* ----------------------------------------------------- initial states
\* The process has started; RS is up.
InitEnv ==
    /\ rsUp = TRUE
    /\ workerCtxDone = FALSE
    /\ mainPc = "serving"

\* Nobody has logged in.
InitAuthIdle ==
    /\ loginKey = NoJTI
    /\ loginPc = [c \in LoginCalls |-> "idle"]
    /\ nextJti = 1
    /\ issued = <<>>
    /\ resetSince = FALSE
    /\ evicted = {}
    /\ authLastReq = [route |-> "none", jti |-> NoJTI, stale |-> FALSE, code |-> ""]

\* The student has logged in once.
InitAuthLoggedIn ==
    /\ loginKey = 1
    /\ loginPc = [c \in LoginCalls |-> "idle"]
    /\ nextJti = 2
    /\ issued = <<1>>
    /\ resetSince = FALSE
    /\ evicted = {}
    /\ authLastReq = [route |-> "login", jti |-> 1, stale |-> FALSE, code |-> "OK"]

\* No frame has been sent; nothing is autosaved.
InitWs(connected) ==
    /\ wsConnected = connected
    /\ wsFrames = 0
    /\ wsWritten = 0
    /\ wsLastFrame = "none"
    /\ wsSilentFor = 0
    /\ monitor = NoMonitor
    /\ persistCheatsQueue = <<>>
    /\ wsLastEvent = [event |-> "none", status |-> ""]
    /\ answersHash = [q \in QIDs |-> Absent]
    /\ lastFrame = [q \in QIDs |-> Absent]

\* The autosave worker has just started.
InitAutosaveWorker ==
    /\ persistAnswersQueue = <<>>
    /\ asBuffer = <<>>
    /\ asPc = "check"
    /\ studentAnswers = [q \in QIDs |-> Absent]
    /\ asPushed = 0
    /\ asWritten = 0
    /\ asRequeued = FALSE

\* The scoring worker has just started.
InitScoringWorker ==
    /\ persistScoresQueue = <<>>
    /\ swBatch = <<>>
    /\ swPc = "check"
    /\ gradedScores = {}
    /\ writtenScores = {}

\* The published exam: two questions, its payload and answer key cached;
\* each student gets one of them, picked at random.
PublishedPayload == <<"q1", "q2">>
PublishedAnswerKey == AnswerKeyOf(PublishedPayload)

\* TheExam is published and cached as x; the other exam is a draft.
OnlyTheExam(x, none) == [e \in Exams |-> IF e = TheExam THEN x ELSE none]

\* The exam tables and the cache once TheExam has been published (with the
\* configuration cfg, its cache holding payload and key) and the server has
\* started: nothing is being warmed, the student's class is targeted.
InitPublished(cfg, payload, key) ==
    /\ exam = OnlyTheExam(cfg, ExamRow("DRAFT", FALSE, 0, NoTime, NoTime))
    /\ examPayloadKey = OnlyTheExam(payload, NoOrder)
    /\ answerKeyHash = OnlyTheExam(key, NoAnswerKey)
    /\ questions = [e \in Exams |-> PublishedPayload]
    /\ examStateKeys = {}
    /\ warmPc = NoWarm
    /\ adminResult = NoAdminResult
    /\ prewarmPc = Prewarm("returned", <<>>, {TheExam}, {TheExam}, {}, "nil")
    /\ targetRules = {TargetRule(TheClass.id, Absent, Absent, Absent)}
    /\ classmates = {}
    /\ stateResult = NoStateResult
    /\ lobbyResult = NoLobby
    /\ orderResult = NoOrderResult
    /\ midnight = NoTime

InitExam ==
    /\ now = 0
    /\ InitPublished(ExamRow("PUBLISHED", TRUE, 1, NoTime, NoTime),
                     PublishedPayload, PublishedAnswerKey)

\* The student has not joined.
InitSessionNone ==
    /\ examSessions = {}
    /\ nextSessionId = 1
    /\ joinPc = [c \in JoinCalls |-> "idle"]
    /\ joinResult = [c \in JoinCalls |-> NoResult]
    /\ sessionStartKey = NoTime
    /\ activeExamKey = FALSE
    /\ shuffledKey = NoOrder
    /\ persistQuestionOrderQueue = <<>>

\* The student has joined with one JoinExam call, which stored the list o.
InitSessionJoined(o) ==
    /\ examSessions = {SessionRow(1, 0, NoTime, "IN_PROGRESS", NoScore)}
    /\ nextSessionId = 2
    /\ joinPc = [c \in JoinCalls |-> IF c = 1 THEN "done" ELSE "idle"]
    /\ joinResult = [c \in JoinCalls |->
                        IF c = 1
                        THEN JoinOk("created", SessionRow(1, 0, NoTime, "", NoScore))
                        ELSE NoResult]
    /\ sessionStartKey = 0
    /\ activeExamKey = TRUE
    /\ shuffledKey = o
    /\ persistQuestionOrderQueue = <<o>>

\* ------------------------------------------- specification: autosave path
\* The student has joined and the WebSocket connection is open.
InitAutosave ==
    /\ InitEnv
    /\ InitAuthLoggedIn
    /\ InitWs(TRUE)
    /\ InitAutosaveWorker
    /\ InitScoringWorker
    /\ now = 0
    /\ InitPublished(ExamRow("PUBLISHED", FALSE, 0, NoTime, NoTime),
                     PublishedPayload, PublishedAnswerKey)
    /\ InitSessionJoined(PublishedPayload)

NextAutosave ==
    \/ RsToggle
    \/ SrvShutdown
    \/ CancelWorkers
    \/ MainExit
    \/ HandleAutosave
    \/ AsFlush
    \/ AsSelect
    \/ AsShutdown
    \/ AsBLPop
    \/ AsBLPopCtxErr

SpecAutosave == InitAutosave /\ [][NextAutosave]_vars

\* The autosave path while the process keeps running (no shutdown signal).
\* Fairness: the worker goroutine keeps being scheduled, and BatchTimeout
\* elapses, so a non-empty buffer is flushed at some later top of the loop.
NextAutosaveLive ==
    \/ RsToggle
    \/ HandleAutosave
    \/ AsFlush
    \/ AsSelect
    \/ AsBLPop

LiveSpecAutosave ==
    /\ InitAutosave
    /\ [][NextAutosaveLive]_vars
    /\ WF_vars(AsSelect)
    /\ WF_vars(AsBLPop)
    /\ SF_vars(AsFlush)

\* --------------------------------------- specification: the four queues
\* The running process (no shutdown signal) with a joined, connected
\* student: the join has pushed the question order, frames push answers,
\* cheat events and scores.  The workers are those main starts, the
\* AutosaveWorker and the ScoringWorker; main constructs no CheatWorker and
\* no QuestionOrderWorker, so nothing pops the other two queues.
\* Fairness: the two worker goroutines keep being scheduled.
NextWorkers ==
    \/ HandleAutosave
    \/ HandleCheat
    \/ HandleSubmit
    \/ AsFlush
    \/ AsSelect
    \/ AsBLPop
    \/ SwFlush
    \/ SwSelect
    \/ SwBLPop

LiveSpecWorkers ==
    /\ InitAutosave
    /\ [][NextWorkers]_vars
    /\ WF_vars(AsSelect)
    /\ WF_vars(AsBLPop)
    /\ WF_vars(SwSelect)
    /\ WF_vars(SwBLPop)

\* ------------------------------------------------ specification: login
\* No exam is being taken; the student logs in, is reset, logs out.
InitAuth ==
    /\ InitEnv
    /\ InitAuthIdle
    /\ InitWs(FALSE)
    /\ InitAutosaveWorker
    /\ InitScoringWorker
    /\ InitExam
    /\ InitSessionNone

NextAuth ==
    \/ \E c \in LoginCalls : GenerateStudentTokenCheck(c)
    \/ \E c \in LoginCalls : GenerateStudentTokenSet(c)
    \/ AdminResetSession
    \/ StudentApiRequest
    \/ StudentLogout
    \/ RequireStudentWSAuth

SpecAuth == InitAuth /\ [][NextAuth]_vars

\* ------------------------------------------ specification: exam session
\* The student joins the published exam (concurrently), connects and
\* submits; the scoring worker persists the scores.
InitSession ==
    /\ InitEnv
    /\ InitAuthLoggedIn
    /\ InitWs(FALSE)
    /\ InitAutosaveWorker
    /\ InitScoringWorker
    /\ InitExam
    /\ InitSessionNone

NextSession ==
    \/ RsToggle
    \/ SrvShutdown
    \/ CancelWorkers
    \/ Tick
    \/ \E c \in JoinCalls : JoinSelect(c, ExamEntryToken)
    \/ \E c \in JoinCalls : JoinCreate(c)
    \/ WsConnect
    \/ HandleSubmit
    \/ SwFlush
    \/ SwSelect
    \/ SwShutdown
    \/ SwBLPop

SpecSession == InitSession /\ [][NextSession]_vars

\* ------------------------------------------- specification: score path
\* The student has joined and is connected; answers are autosaved and
\* submitted, the scoring worker persists the scores.
NextSubmit ==
    \/ RsToggle
    \/ SrvShutdown
    \/ CancelWorkers
    \/ HandleAutosave
    \/ HandleSubmit
    \/ SwFlush
    \/ SwSelect
    \/ SwShutdown
    \/ SwBLPop

SpecSubmit == InitAutosave /\ [][NextSubmit]_vars

\* ------------------------------------------------ specification: grading
\* handleSubmit as a function of what CS holds: any answers hash, any answer
\* key and any list of distinct questions.
StoredValues == {Absent, "A", "B"}
QuestionLists ==
    UNION {{l \in [1..n -> QIDs] : \A i, j \in 1..n : i # j => l[i] # l[j]} : n \in 0..MaxListLen}

InitGrade ==
    /\ InitEnv
    /\ InitAuthLoggedIn
    /\ wsConnected = TRUE
    /\ wsFrames = 0
    /\ wsWritten = 0
    /\ wsLastFrame = "none"
    /\ wsSilentFor = 0
    /\ monitor = NoMonitor
    /\ persistCheatsQueue = <<>>
    /\ wsLastEvent = [event |-> "none", status |-> ""]
    /\ answersHash \in [QIDs -> StoredValues]
    /\ lastFrame = answersHash
    /\ persistAnswersQueue = <<>>
    /\ asBuffer = <<>>
    /\ asPc = "check"
    /\ studentAnswers = answersHash
    /\ asPushed = Cardinality({q \in QIDs : answersHash[q] # Absent})
    /\ asWritten = asPushed
    /\ asRequeued = FALSE
    /\ InitScoringWorker
    /\ now = 0
    /\ \E key \in [QIDs -> StoredValues], o \in QuestionLists :
          /\ InitSessionJoined(o)
          /\ InitPublished(ExamRow("PUBLISHED", TRUE,
                                   IF o # <<>> /\ Len(o) < Len(PublishedPayload)
                                   THEN Len(o) ELSE 0, NoTime, NoTime),
                           IF o = <<>> THEN <<>> ELSE PublishedPayload, key)

NextGrade == HandleSubmit

SpecGrade == InitGrade /\ [][NextGrade]_vars

\* ------------------------------------------ specification: repeated submits
\* As for grading, with submits repeated while everything handleSubmit does
\* not read changes between them: RS, the clock, other frames.
NextRegrade ==
    \/ HandleSubmit
    \/ HandlePing
    \/ RsToggle
    \/ Tick

SpecRegrade == InitGrade /\ [][NextRegrade]_vars

\* --------------------------------------------- specification: publishing
\* Both exams are drafts with questions and nothing is cached; admins
\* publish TheExam, refresh its cache and replace its questions.
InitPublish ==
    /\ InitEnv
    /\ InitAuthLoggedIn
    /\ InitWs(FALSE)
    /\ InitAutosaveWorker
    /\ InitScoringWorker
    /\ InitSessionNone
    /\ now = 0
    /\ exam = [e \in Exams |-> ExamRow("DRAFT", TRUE, 0, NoTime, NoTime)]
    /\ examPayloadKey = [e \in Exams |-> NoOrder]
    /\ answerKeyHash = [e \in Exams |-> NoAnswerKey]
    /\ questions = [e \in Exams |-> PublishedPayload]
    /\ examStateKeys = {}
    /\ warmPc = NoWarm
    /\ adminResult = NoAdminResult
    /\ prewarmPc = Prewarm("returned", <<>>, {}, {}, {}, "nil")
    /\ targetRules = {TargetRule(TheClass.id, Absent, Absent, Absent)}
    /\ classmates = {}
    /\ stateResult = NoStateResult
    /\ lobbyResult = NoLobby
    /\ orderResult = NoOrderResult
    /\ midnight = NoTime

NextPublish ==
    \/ RsToggle
    \/ \E admin \in Admins : PublishExam(TheExam, admin)
    \/ \E admin \in Admins : RefreshExamCache(TheExam, admin)
    \/ WarmSet
    \/ WarmDel
    \/ WarmHSet
    \/ PublishUpdateStatus
    \/ \E list \in BankContents : ReplaceAll(TheExam, list)

SpecPublish == InitPublish /\ [][NextPublish]_vars

\* ------------------------------------------------ specification: prewarm
\* The process starts: each exam is a draft or published, its bank has
\* questions or has been emptied since, and CS holds the cache of an earlier
\* run or has lost it.  main runs PrewarmAllCaches and starts the server.
InitPrewarm ==
    /\ rsUp \in BOOLEAN
    /\ workerCtxDone = FALSE
    /\ mainPc = "starting"
    /\ InitAuthIdle
    /\ InitWs(FALSE)
    /\ InitAutosaveWorker
    /\ InitScoringWorker
    /\ InitSessionNone
    /\ now = 0
    /\ exam \in [Exams -> {ExamRow(s, TRUE, 0, NoTime, NoTime) : s \in {"DRAFT", "PUBLISHED"}}]
    /\ questions \in [Exams -> BankContents]
    /\ \E cached \in SUBSET {e \in Exams : exam[e].status = "PUBLISHED"} :
          /\ examPayloadKey = [e \in Exams |-> IF e \in cached THEN PublishedPayload ELSE NoOrder]
          /\ answerKeyHash = [e \in Exams |-> IF e \in cached THEN AnswerKeyOf(PublishedPayload)
                                              ELSE NoAnswerKey]
    /\ examStateKeys = {}
    /\ warmPc = NoWarm
    /\ adminResult = NoAdminResult
    /\ prewarmPc = Prewarm("idle", <<>>, {}, {}, {}, "nil")
    /\ targetRules = {TargetRule(TheClass.id, Absent, Absent, Absent)}
    /\ classmates = {}
    /\ stateResult = NoStateResult
    /\ lobbyResult = NoLobby
    /\ orderResult = NoOrderResult
    /\ midnight = NoTime

NextPrewarm ==
    \/ RsToggle
    \/ PrewarmList
    \/ PrewarmNext
    \/ WarmSet
    \/ WarmDel
    \/ WarmHSet
    \/ PrewarmReturn

SpecPrewarm == InitPrewarm /\ [][NextPrewarm]_vars

\* ------------------------------------------- specification: exam state
\* The student joins the published exam (concurrently, repeatedly) and reads
\* the exam state; CS may lose the session_start key.
NextState ==
    \/ RsToggle
    \/ Tick
    \/ \E c \in JoinCalls : JoinSelect(c, ExamEntryToken)
    \/ \E c \in JoinCalls : JoinCreate(c)
    \/ EvictSessionStart
    \/ GetExamState

\* Nothing in the repository writes the exam-level keys that GetExamState
\* reads; CS either lacks them or holds them because they were provisioned
\* from outside, which is what lets GetExamState get as far as session_start.
InitState ==
    /\ InitEnv
    /\ InitAuthLoggedIn
    /\ InitWs(FALSE)
    /\ InitAutosaveWorker
    /\ InitScoringWorker
    /\ now = 0
    /\ exam = OnlyTheExam(ExamRow("PUBLISHED", TRUE, 1, NoTime, NoTime),
                          ExamRow("DRAFT", FALSE, 0, NoTime, NoTime))
    /\ examPayloadKey = OnlyTheExam(PublishedPayload, NoOrder)
    /\ answerKeyHash = OnlyTheExam(PublishedAnswerKey, NoAnswerKey)
    /\ questions = [e \in Exams |-> PublishedPayload]
    /\ examStateKeys \in {{}, {<<TheExam, "duration">>},
                          {<<TheExam, "duration">>, <<TheExam, "cheat_rules">>,
                           <<TheExam, "random_order">>}}
    /\ warmPc = NoWarm
    /\ adminResult = NoAdminResult
    /\ prewarmPc = Prewarm("returned", <<>>, {TheExam}, {TheExam}, {}, "nil")
    /\ targetRules = {TargetRule(TheClass.id, Absent, Absent, Absent)}
    /\ classmates = {}
    /\ stateResult = NoStateResult
    /\ lobbyResult = NoLobby
    /\ orderResult = NoOrderResult
    /\ midnight = NoTime
    /\ InitSessionNone

SpecState == InitState /\ [][NextState]_vars

\* ------------------------------------------ specification: join checks
\* Every rule an admin can add for the exam; c2 is another class.
AllRules ==
    {TargetRule(c, g, mj, rel) :
        c \in {Absent, TheClass.id, "c2"},
        g \in {Absent, "10", "11"},
        mj \in {Absent, "IPA", "IPS"},
        rel \in {Absent} \cup Religions}
RuleSets ==
    UNION {{{f[i] : i \in 1..n} : f \in [1..n -> AllRules]} : n \in 0..MaxRules}
ScheduleTimes == {NoTime} \cup (0..MaxClock)

\* The exam is a draft or published, with or without a schedule, and the
\* student's class is targeted by class id or not at all; or the exam is
\* published without a schedule and has any set of rules, the student's
\* classmates having any religions.
InitJoinGate ==
    /\ InitEnv
    /\ InitAuthLoggedIn
    /\ InitWs(FALSE)
    /\ InitAutosaveWorker
    /\ InitScoringWorker
    /\ InitSessionNone
    /\ now = 0
    /\ examPayloadKey = OnlyTheExam(PublishedPayload, NoOrder)
    /\ answerKeyHash = OnlyTheExam(PublishedAnswerKey, NoAnswerKey)
    /\ questions = [e \in Exams |-> PublishedPayload]
    /\ examStateKeys = {}
    /\ warmPc = NoWarm
    /\ adminResult = NoAdminResult
    /\ prewarmPc = Prewarm("returned", <<>>, {TheExam}, {TheExam}, {}, "nil")
    /\ stateResult = NoStateResult
    /\ lobbyResult = NoLobby
    /\ orderResult = NoOrderResult
    /\ midnight = NoTime
    /\ \/ /\ \E s \in {"DRAFT", "PUBLISHED"}, from \in ScheduleTimes, to \in ScheduleTimes :
                exam = OnlyTheExam(ExamRow(s, TRUE, 1, from, to),
                                   ExamRow("DRAFT", FALSE, 0, NoTime, NoTime))
          /\ targetRules \in {{}, {TargetRule(TheClass.id, Absent, Absent, Absent)}}
          /\ classmates = {}
       \/ /\ exam = OnlyTheExam(ExamRow("PUBLISHED", TRUE, 1, NoTime, NoTime),
                                ExamRow("DRAFT", FALSE, 0, NoTime, NoTime))
          /\ targetRules \in RuleSets
          /\ classmates \in SUBSET Religions

NextJoinGate ==
    \/ RsToggle
    \/ Tick
    \/ \E c \in JoinCalls, token \in EntryTokens : JoinSelect(c, token)
    \/ \E c \in JoinCalls : JoinCreate(c)

SpecJoinGate == InitJoinGate /\ [][NextJoinGate]_vars

\* ------------------------------------------------ specification: the lobby
\* The exam of the end-to-end test, created and published at clock time t
\* (one tick is an hour): the window opens an hour after creation and lasts
\* two hours; randomize and question_count keep their defaults.
E2EExam(t) == ExamRow("PUBLISHED", FALSE, 0, t + 1, t + 3)

\* The exam is a draft or published, with any schedule within the clock or
\* the schedule of the end-to-end test; the student's class is targeted by
\* class id or not at all; the date may change within the clock.
InitLobby ==
    /\ InitEnv
    /\ InitAuthLoggedIn
    /\ InitWs(FALSE)
    /\ InitAutosaveWorker
    /\ InitScoringWorker
    /\ InitSessionNone
    /\ now = 0
    /\ examPayloadKey = OnlyTheExam(PublishedPayload, NoOrder)
    /\ answerKeyHash = OnlyTheExam(PublishedAnswerKey, NoAnswerKey)
    /\ questions = [e \in Exams |-> PublishedPayload]
    /\ examStateKeys = {}
    /\ warmPc = NoWarm
    /\ adminResult = NoAdminResult
    /\ prewarmPc = Prewarm("returned", <<>>, {TheExam}, {TheExam}, {}, "nil")
    /\ stateResult = NoStateResult
    /\ lobbyResult = NoLobby
    /\ orderResult = NoOrderResult
    /\ midnight \in {NoTime} \cup (1..MaxClock)
    /\ \/ \E s \in {"DRAFT", "PUBLISHED"}, from \in ScheduleTimes, to \in ScheduleTimes :
             exam = OnlyTheExam(ExamRow(s, TRUE, 1, from, to),
                                ExamRow("DRAFT", FALSE, 0, NoTime, NoTime))
       \/ exam = OnlyTheExam(E2EExam(now), ExamRow("DRAFT", FALSE, 0, NoTime, NoTime))
    /\ targetRules \in {{}, {TargetRule(TheClass.id, Absent, Absent, Absent)}}
    /\ classmates = {}

NextLobby ==
    \/ RsToggle
    \/ Tick
    \/ GetLobby
    \/ \E c \in JoinCalls : JoinSelect(c, ExamEntryToken)
    \/ \E c \in JoinCalls : JoinCreate(c)

SpecLobby == InitLobby /\ [][NextLobby]_vars

\* -------------------------------------- specification: the question order
\* What a ReplaceAll stores for the bank of TheExam: new rows with new ids.
ReplacedQuestions == <<"q3">>

\* TheExam is published and cached, with or without shuffling and a cap on
\* the number of questions; nobody has joined.  No action consumes
\* persist_question_order_queue: main starts no QuestionOrderWorker.
InitOrder ==
    /\ InitEnv
    /\ InitAuthLoggedIn
    /\ InitWs(FALSE)
    /\ InitAutosaveWorker
    /\ InitScoringWorker
    /\ InitSessionNone
    /\ now = 0
    /\ \E randomize \in BOOLEAN, questionCount \in 0..1 :
          InitPublished(ExamRow("PUBLISHED", randomize, questionCount, NoTime, NoTime),
                        PublishedPayload, PublishedAnswerKey)

NextOrder ==
    \/ RsToggle
    \/ \E c \in JoinCalls : JoinSelect(c, ExamEntryToken)
    \/ \E c \in JoinCalls : JoinCreate(c)
    \/ GetShuffledQuestionIDsCall
    \/ EvictShuffledQuestions
    \/ ReplaceAll(TheExam, ReplacedQuestions)
    \/ \E admin \in Admins : RefreshExamCache(TheExam, admin)
    \/ WarmSet
    \/ WarmDel
    \/ WarmHSet

SpecOrder == InitOrder /\ [][NextOrder]_vars

\* ------------------------------------ specification: the command loop
\* The student has joined and the WebSocket connection is open; the client
\* sends frames of every kind the loop distinguishes.
NextFrames ==
    \/ RsToggle
    \/ HandleAutosave
    \/ HandleAutosaveFormat
    \/ HandleCheat
    \/ HandleSubmit
    \/ HandlePing
    \/ HandleInvalidJSON
    \/ \E a \in UnknownActions : HandleUnknownAction(a)

SpecFrames == InitAutosave /\ [][NextFrames]_vars

\* --------------------------------------- specification: a silent connection
\* The connection is open; the client sends frames, stays silent, or goes
\* away.
NextSilent ==
    \/ HandleAutosave
    \/ HandleCheat
    \/ HandlePing
    \/ HandleInvalidJSON
    \/ SilentMinute
    \/ ReadMessageError

SpecSilent == InitAutosave /\ [][NextSilent]_vars

\* ------------------------------------- specification: after completion
\* The student is connected with answers in CS; submits, autosaves and
\* re-joins (which find the session row) go on while the scoring worker
\* persists the scores.
NextResubmit ==
    \/ RsToggle
    \/ Tick
    \/ HandleAutosave
    \/ HandleSubmit
    \/ \E c \in JoinCalls : JoinSelect(c, ExamEntryToken)
    \/ SwFlush
    \/ SwSelect
    \/ SwBLPop

SpecResubmit == InitGrade /\ [][NextResubmit]_vars

\* ------------------------------- specification: an autosave RS rejects
\* The autosave path of the running process, with frames whose answer RS
\* rejects.  Fairness as for the autosave path.
NextRejected ==
    \/ RsToggle
    \/ HandleAutosave
    \/ HandleAutosaveLong
    \/ AsFlush
    \/ AsSelect
    \/ AsBLPop

LiveSpecRejected ==
    /\ InitAutosave
    /\ [][NextRejected]_vars
    /\ WF_vars(AsSelect)
    /\ WF_vars(AsBLPop)
    /\ SF_vars(AsFlush)

\* ------------------------------------ specification: requeued autosaves
\* The autosave path with frames that store an answer (no frame erases
\* one), RS going down and coming back.
HandleAutosaveAnswer ==
    \E q \in QIDs, ans \in AnswerValues \ {""} : handleAutosave(q, ans, TRUE, TRUE)

NextRequeue ==
    \/ RsToggle
    \/ HandleAutosaveAnswer
    \/ AsFlush
    \/ AsSelect
    \/ AsBLPop

SpecRequeue == InitAutosave /\ [][NextRequeue]_vars

\* ------------------------------------- specification: the monitor stream
\* The student joins (or has not joined yet) while an admin attaches to the
\* monitor stream of the exam.
NextMonitor ==
    \/ RsToggle
    \/ \E c \in JoinCalls : JoinSelect(c, ExamEntryToken)
    \/ \E c \in JoinCalls : JoinCreate(c)
    \/ MonitorExamSSE
    \/ MonitorMessage
    \/ MonitorRefreshTick
    \/ MonitorKeepAlive
    \/ MonitorCancel

SpecMonitor == InitSession /\ [][NextMonitor]_vars

\* ---------------------------- specification: autosave while CS may fail
\* The autosave path with CS failing single commands of the handler.
NextEnqueue ==
    \/ RsToggle
    \/ HandleAutosaveCS
    \/ AsFlush
    \/ AsSelect
    \/ AsBLPop

SpecEnqueue == InitAutosave /\ [][NextEnqueue]_vars

\* ------------------------------ specification: items that do not parse
\* The autosave path of a process that is not shutting down, with items in
\* the queue whose ids do not parse.
NextUnparsable ==
    \/ RsToggle
    \/ HandleAutosave
    \/ PushUnparsable
    \/ AsFlush
    \/ AsSelect
    \/ AsBLPop

SpecUnparsable == InitAutosave /\ [][NextUnparsable]_vars

\* ------------------------------------------------------------------ claims
\* What RS must hold for q once its last autosave frame has been persisted.
ExpectedRow(q) == IF lastFrame[q] = "" THEN Absent ELSE lastFrame[q]

AutosaveDrained == persistAnswersQueue = <<>> /\ asBuffer = <<>>

\* C1: once persist_answers_queue is empty and the autosave worker holds no
\* buffered item, the student_answers row of every autosaved question holds the
\* value of the last frame, and no row exists if that value is empty (stated for
\* a worker that has not been told to shut down).
C1_LastFrameWins ==
    (AutosaveDrained /\ ~workerCtxDone) =>
        \A q \in QIDs : lastFrame[q] # Absent => studentAnswers[q] = ExpectedRow(q)

\* C8: every item pushed to the queue is in the queue, in the worker's buffer,
\* or has been written to RS: none disappears in a flush (no item of the
\* answers queue has invalid JSON or an invalid UUID).
C8_NoItemDisappears ==
    asPushed = Len(persistAnswersQueue) + Len(asBuffer) + asWritten

\* C10: when Start has returned, no popped item is left in the buffer and every
\* popped item was written to RS or pushed back to the queue.
C10_FlushedBeforeReturn ==
    asPc = "stopped" =>
        /\ asBuffer = <<>>
        /\ asPushed = Len(persistAnswersQueue) + asWritten

C3_EvictedTokenRejected ==
    authLastReq.stale => authLastReq.code = "SESSION_INVALIDATED"

\* C4: at most one issued JTI passes ValidateStudentSession, and every token
\* issued before the latest successful login fails it.
C4_SingleDevice ==
    /\ Cardinality({j \in IssuedJtis : ValidateStudentSession(loginKey, j) = "ok"}) <= 1
    /\ \A i \in 1..(Len(issued) - 1) : ValidateStudentSession(loginKey, issued[i]) # "ok"

\* C4 witness: two logins have succeeded and the later token is the valid one.
C4_Witness ==
    /\ Len(issued) >= 2
    /\ ValidateStudentSession(loginKey, issued[Len(issued)]) = "ok"
    /\ ValidateStudentSession(loginKey, issued[1]) = "session invalidated"

\* JoinExam calls that have returned a session.
JoinedCalls == {c \in JoinCalls : joinPc[c] = "done" /\ joinResult[c].code = "OK"}

\* C2: concurrent JoinExam calls leave exactly one exam_sessions row, every
\* call succeeds unless RS refused its statement, and all successful calls
\* carry the id and the started_at of that row.
C2_OneSessionPerJoin ==
    /\ Cardinality(examSessions) <= 1
    /\ \A c \in JoinCalls :
          joinPc[c] = "done" => (joinResult[c].code = "OK" \/ ~joinResult[c].rs)
    /\ \A c \in JoinedCalls :
          /\ Cardinality(examSessions) = 1
          /\ \A r \in examSessions :
                joinResult[c].id = r.id /\ joinResult[c].startedAt = r.startedAt
    /\ \A c, d \in JoinedCalls :
          /\ joinResult[c].id = joinResult[d].id
          /\ joinResult[c].startedAt = joinResult[d].startedAt

\* C2 witness: every call has returned a session, one of them after losing
\* the race for the insert, at a later time than the row was created.
C2_Witness ==
    /\ JoinedCalls = JoinCalls
    /\ \E c \in JoinCalls : joinResult[c].via = "conflict"
    /\ \E c \in JoinCalls : joinResult[c].via = "created"
    /\ \E r \in examSessions : r.startedAt < now

\* C5: in every step each exam_sessions row keeps its status or goes from
\* IN_PROGRESS to COMPLETED in a flush of the scoring worker; no row is
\* removed, whatever join runs.
C5_StatusOnlyCompletes ==
    [][/\ \A r \in examSessions : \E r2 \in examSessions' : r2.id = r.id
       /\ \A r \in examSessions : \A r2 \in examSessions' :
             r2.id = r.id =>
                \/ r2.status = r.status
                \/ /\ r.status = "IN_PROGRESS"
                   /\ r2.status = "COMPLETED"
                   /\ swBatch # <<>>
                   /\ swBatch' = <<>>]_vars

\* C5 witness: a join that raced with the completion of the session has
\* returned the completed session, and the row is still COMPLETED.
C5_Witness ==
    /\ \E c \in JoinCalls :
          /\ joinPc[c] = "done"
          /\ joinResult[c].via = "conflict"
          /\ joinResult[c].status = "COMPLETED"
    /\ \A r \in examSessions : r.status = "COMPLETED"

\* C6: once a graded frame carried the score s, RS is available and nothing
\* is left in persist_scores_queue or in the worker's batch, the session row is
\* COMPLETED and s (as DECIMAL(5,2) holds it) has been written as its
\* final_score.
C6_GradedScorePersisted ==
    (gradedScores # {} /\ persistScoresQueue = <<>> /\ swBatch = <<>> /\ rsUp) =>
        /\ \E r \in examSessions : r.status = "COMPLETED"
        /\ \A s \in gradedScores : ToDecimal52(s) \in writtenScores

\* The questions of the student's list that are answered as the key says.
CorrectInList ==
    {i \in 1..Len(shuffledKey) :
        /\ answerKeyHash[TheExam][shuffledKey[i]] # Absent
        /\ answersHash[shuffledKey[i]] = answerKeyHash[TheExam][shuffledKey[i]]}

\* C7: the score of a graded frame is 100 * (questions of the shuffled list
\* whose saved answer equals the answer key's) / (length of the list), and 0
\* for an empty list; it reads no answer outside the list, and a question
\* without a saved answer counts as wrong.
C7_ScoreOverShuffledList ==
    wsLastEvent.event = "graded" =>
        wsLastEvent.score =
            IF Len(shuffledKey) = 0 THEN 0
            ELSE (Cardinality(CorrectInList) * 100 * ScoreScale) \div Len(shuffledKey)

\* C7 witness: a one-question list answered correctly is graded 100 while
\* the other question, outside the list, is answered wrongly.
C7_Witness ==
    /\ wsLastEvent.event = "graded"
    /\ Len(shuffledKey) = 1
    /\ wsLastEvent.score = 100 * ScoreScale
    /\ \E q \in QIDs :
          /\ q # shuffledKey[1]
          /\ answerKeyHash[TheExam][q] # Absent
          /\ answersHash[q] # Absent
          /\ answersHash[q] # answerKeyHash[TheExam][q]

\* C11: on a shutdown signal the worker contexts are cancelled only after the
\* HTTP server has been stopped, and the process does not exit until the
\* autosave worker has finished its final flush and returned.
C11_ExitAfterFinalFlush ==
    /\ workerCtxDone => mainPc \in {"sleeping", "exited"}
    /\ mainPc = "exited" => (asPc = "stopped" /\ asBuffer = <<>>)

\* C12: in every state, also while WarmExamCache runs, an exam whose
\* exam:{eid}:payload exists in CS has a non-empty exam:{eid}:key: a reader
\* never finds the payload without the answer key.
C12_PayloadNeverWithoutKey ==
    \A e \in Exams : examPayloadKey[e] # NoOrder => answerKeyHash[e] # NoAnswerKey

\* No publish, refresh or prewarm is in progress.
CacheQuiescent == warmPc = NoWarm /\ prewarmPc.pc # "warming"

\* C13: whenever no publish, refresh or prewarm is in progress, an exam has
\* its payload and a non-empty answer key in CS if and only if its status is
\* PUBLISHED and it has at least one question; this holds after a Publish
\* whose status update failed, too.
C13_CachedIffPublished ==
    CacheQuiescent =>
        \A e \in Exams :
            (examPayloadKey[e] # NoOrder /\ answerKeyHash[e] # NoAnswerKey)
                <=> (exam[e].status = "PUBLISHED" /\ questions[e] # <<>>)

\* The exam-level keys GetExamState reads besides the payload and the key.
ExamStateKeysOf(e) == {<<e, "duration">>, <<e, "cheat_rules">>, <<e, "random_order">>}

\* C14: once WarmExamCache has succeeded for an exam (its publish or refresh
\* was answered OK), CS holds exam:{eid}:duration, exam:{eid}:cheat_rules and
\* exam:{eid}:random_order for it, so that GetExamState finds them.
C14_WarmWritesExamStateKeys ==
    (adminResult.code = "OK" /\ adminResult.op \in {"publish", "refresh"}) =>
        ExamStateKeysOf(adminResult.exam) \subseteq examStateKeys

\* The last Publish request found a DRAFT exam with questions and RS
\* served every statement of it.
PublishOfDraftServed ==
    /\ adminResult.op = "publish"
    /\ adminResult.status = "DRAFT"
    /\ adminResult.questions > 0
    /\ adminResult.err \notin {"get exam", "list questions", "update status"}

\* C15: Publish of a DRAFT exam with at least one question is answered OK and
\* leaves the status PUBLISHED when the acting admin is the exam's author or
\* holds exams:write_all; any other admin is refused with NOT_EXAM_AUTHOR.
C15_AuthorOrWriteAllPublishes ==
    PublishOfDraftServed =>
        IF adminResult.actor.id = exam[adminResult.exam].authorID \/ adminResult.actor.writeAll
        THEN adminResult.code = "OK" /\ exam[adminResult.exam].status = "PUBLISHED"
        ELSE adminResult.code = "NOT_EXAM_AUTHOR"

\* The last Publish request came from the exam's author acting under its
\* own id, and RS served every statement of it.
PublishByAuthorServed ==
    /\ adminResult.op = "publish"
    /\ adminResult.actor = [id |-> exam[adminResult.exam].authorID, writeAll |-> FALSE]
    /\ adminResult.err \notin {"get exam", "list questions", "update status"}

\* C16: Publish of an exam that is not DRAFT is answered EXAM_NOT_DRAFT and
\* Publish of a DRAFT exam without questions is answered NO_QUESTIONS; neither
\* request has written to RS or CS (stated for the author's requests, which
\* pass the author check).
C16_PublishFailuresReported ==
    PublishByAuthorServed =>
        /\ adminResult.status # "DRAFT" =>
              (adminResult.code = "EXAM_NOT_DRAFT" /\ ~adminResult.wrote)
        /\ (adminResult.status = "DRAFT" /\ adminResult.questions = 0) =>
              (adminResult.code = "NO_QUESTIONS" /\ ~adminResult.wrote)

\* PrewarmAllCaches has returned to main.
PrewarmReturned == prewarmPc.pc = "returned"
PublishedExams == {e \in Exams : exam[e].status = "PUBLISHED"}

StudentTargeted ==
    \E r \in targetRules :
        \/ r.classID = TheClass.id
        \/ /\ r.gradeLevel = Absent \/ r.gradeLevel = TheClass.gradeLevel
           /\ r.majorCode = Absent \/ r.majorCode = TheClass.majorCode
           /\ r.religion = Absent \/ r.religion = StudentReligion

\* C19: when the student is not targeted, every JoinExam call that carried
\* the exam's entry token and was served by RS is answered EXAM_NOT_AVAILABLE,
\* and no session row exists.
C19_NonTargetedRejected ==
    ~StudentTargeted =>
        /\ \A c \in JoinCalls :
              (joinPc[c] = "done" /\ joinResult[c].token = ExamEntryToken)
                  => joinResult[c].code = "EXAM_NOT_AVAILABLE"
        /\ examSessions = {}

\* The exam is PUBLISHED and the time t is inside its schedule window.
JoinableAt(t) ==
    /\ exam[TheExam].status = "PUBLISHED"
    /\ exam[TheExam].scheduledStart = NoTime \/ t >= exam[TheExam].scheduledStart
    /\ exam[TheExam].scheduledEnd = NoTime \/ t <= exam[TheExam].scheduledEnd

\* JoinExam calls answered with a token that is not the exam's.
WrongTokenCalls ==
    {c \in JoinCalls : /\ joinPc[c] = "done"
                       /\ joinResult[c].via = "rejected"
                       /\ joinResult[c].token # ExamEntryToken}

OutsideWindow(t) ==
    \/ exam[TheExam].scheduledStart # NoTime /\ t < exam[TheExam].scheduledStart
    \/ exam[TheExam].scheduledEnd # NoTime /\ t > exam[TheExam].scheduledEnd

E2ERightAfterPublishing ==
    /\ exam[TheExam] = E2EExam(0)
    /\ now = 0
    /\ \E r \in targetRules : r.classID = TheClass.id

\* C22: for the published exam of the end-to-end test (window opening an
\* hour after creation, a rule naming the student's class), right after
\* publishing a GetLobby call that RS serves lists the exam and a JoinExam
\* call with the exam's entry token that RS serves is not refused.
C22_E2EExamListedAndJoinable ==
    [][(E2ERightAfterPublishing /\ rsUp) =>
          /\ lobbyResult' # lobbyResult => lobbyResult'.listed
          /\ \A c \in JoinCalls :
                (joinPc[c] = "idle" /\ joinPc'[c] = "done") => joinResult'[c].code = "OK"]_vars

\* C23: VerifyActiveSession, which guards the paper, the exam state and the
\* WebSocket stream, answers ok only while an exam_sessions row of the
\* (exam, student) pair has status IN_PROGRESS; in particular it refuses
\* once the scoring worker has marked the session COMPLETED.
C23_ActiveOnlyInProgress ==
    VerifyActiveSession(activeExamKey, rsUp, examSessions) = "ok"
        => \E r \in examSessions : r.status = "IN_PROGRESS"

Range(list) == {list[i] : i \in 1..Len(list)}

\* C25: the student's shuffled_questions list holds only question ids of the
\* exam's payload in CS, holds none twice, and is no longer than
\* question_count when that is positive.
C25_ShuffledWithinPayload ==
    (shuffledKey # NoOrder /\ examPayloadKey[TheExam] # NoOrder) =>
        /\ Range(shuffledKey) \subseteq Range(examPayloadKey[TheExam])
        /\ \A i, j \in 1..Len(shuffledKey) : i # j => shuffledKey[i] # shuffledKey[j]
        /\ exam[TheExam].questionCount > 0 => Len(shuffledKey) <= exam[TheExam].questionCount

\* C26: two successive answers of GetShuffledQuestionIDs for the session,
\* both without error, carry the same ids in the same order, whatever
\* happened in between (re-joins, concurrent joins, the shuffled_questions
\* key leaving CS).
C26_OrderStable ==
    [][(orderResult.err = "nil" /\ orderResult'.err = "nil" /\ examSessions # {})
          => orderResult'.ids = orderResult.ids]_vars

\* The step reads a client frame of one of the given kinds.
ReadsFrame(kinds) == wsFrames' = wsFrames + 1 /\ wsLastFrame' \in kinds

\* C27: a step that handles a cheat frame writes no frame to the client and
\* changes nothing but persist_cheats_queue, to which it appends at most one
\* item.
C27_CheatNeverAcknowledged ==
    [][ReadsFrame({"cheat"}) =>
          /\ wsWritten' = wsWritten
          /\ wsLastEvent' = wsLastEvent
          /\ wsConnected'
          /\ \/ persistCheatsQueue' = persistCheatsQueue
             \/ \E p \in CheatPayloads : persistCheatsQueue' = Append(persistCheatsQueue, p)
          /\ UNCHANGED <<answersHash, lastFrame, envVars, autosaveVars, authVars, sessVars,
                         scoreVars, pubVars, gateVars>>]_vars

\* C27 witness: the last frame was a cheat frame that was enqueued, after a
\* cheat frame that was not, and the server has written nothing.
C27_Witness ==
    /\ wsLastFrame = "cheat"
    /\ wsFrames = 2
    /\ Len(persistCheatsQueue) = 1
    /\ wsWritten = 0
    /\ wsLastEvent.event = "none"

\* C28: a step that reads a frame that is not valid JSON, or a frame whose
\* action is unknown, writes exactly one frame, an error event, and leaves
\* the connection open.
C28_BadFrameGetsOneError ==
    [][ReadsFrame({"invalid-json", "unknown-action"}) =>
          /\ wsWritten' = wsWritten + 1
          /\ wsLastEvent'.event = "error"
          /\ wsConnected']_vars

Pops(queue) == queue # <<>> /\ queue' = Tail(queue)

\* C30: in the running process each of the four persistence queues has a
\* consumer, so an item pushed to it is eventually popped: no queue stays
\* non-empty forever without being popped (each is empty again and again,
\* or popped again and again).
C30_EveryQueueConsumed ==
    /\ []<>(persistAnswersQueue = <<>>) \/ []<><<Pops(persistAnswersQueue)>>_vars
    /\ []<>(persistScoresQueue = <<>>) \/ []<><<Pops(persistScoresQueue)>>_vars
    /\ []<>(persistCheatsQueue = <<>>) \/ []<><<Pops(persistCheatsQueue)>>_vars
    /\ []<>(persistQuestionOrderQueue = <<>>)
          \/ []<><<Pops(persistQuestionOrderQueue)>>_vars

\* C31: a connection on which the client has sent no frame for the
\* read-deadline period is closed by the server: no open connection has been
\* silent for longer than the period.
C31_SilentConnectionClosed == wsConnected => wsSilentFor <= ReadDeadlineMinutes

\* The scoring worker's write reaches the session row: the row becomes
\* COMPLETED in this step.
ScoreWrittenToRS ==
    /\ \E r \in examSessions : r.status # "COMPLETED"
    /\ examSessions' # {}
    /\ \A r \in examSessions' : r.status = "COMPLETED"

\* C32: whenever the scoring worker has written a session's score to RS, by
\* the bulk update or by the single-row fallback, the session's answers key
\* is deleted by the same flush.
C32_AnswersDeletedAfterScoreWrite ==
    [][ScoreWrittenToRS => \A q \in DOMAIN answersHash' : answersHash'[q] = Absent]_vars

\* C33: once a session is COMPLETED with a final score, no later step changes
\* its final_score or finished_at.
C33_CompletedScoreFrozen ==
    [][\A r \in examSessions : r.status = "COMPLETED" =>
          \A r2 \in examSessions' : r2.id = r.id =>
              r2.finalScore = r.finalScore /\ r2.finishedAt = r.finishedAt]_vars

\* C34: of the login calls of one student that overlap while login:{sid} is
\* absent only one returns a token: no call issues a token while the key
\* already holds the session of another call.
C34_OneConcurrentLoginWins ==
    [][Len(issued') > Len(issued) => loginKey = NoJTI]_vars

\* C35: a logout request whose token does not carry the JTI stored in
\* login:{sid} does not delete the key: a logout step that clears the key
\* carries the stored JTI.
C35_StaleLogoutKeepsSession ==
    [][(loginKey # NoJTI /\ loginKey' = NoJTI /\ authLastReq'.route = "logout"
            /\ authLastReq' # authLastReq)
          => authLastReq'.jti = loginKey]_vars

\* An item RS will never accept waits in the queue or in the worker's buffer.
RejectedItemPending ==
    \/ \E i \in 1..Len(persistAnswersQueue) : ~FitsAnswerColumn(persistAnswersQueue[i].answer)
    \/ \E i \in 1..Len(asBuffer) : ~FitsAnswerColumn(asBuffer[i].answer)

\* C36: an accepted autosave that RS rejects on every attempt is not requeued
\* forever: unless RS keeps going down, again and again no such item is
\* waiting in the queue or the buffer.
C36_RejectedItemLeavesQueue == []<>(~rsUp) \/ []<>(~RejectedItemPending)

\* C37: when an autosave that failed to persist was pushed back to the tail
\* of the queue, the value stored once the queue has drained is still that of
\* the latest autosave of the question.
C37_LaterAutosaveSurvivesRequeue ==
    (asRequeued /\ AutosaveDrained) =>
        \A q \in QIDs : lastFrame[q] # Absent => studentAnswers[q] = lastFrame[q]

\* C38: on a monitor stream whose snapshot held a joined student no refresh
\* tick is skipped for want of students, whether or not a pub-sub message
\* has arrived.
C38_RefreshAtEveryTick == monitor.snapshotJoined >= 1 => monitor.skipped = 0

\* C39: an autosave frame answered with a success event has had its payload
\* appended to persist_answers_queue by the step that answered it.
C39_SuccessMeansEnqueued ==
    [][(ReadsFrame({"autosave"}) /\ wsLastEvent'.event = "success")
          => Len(persistAnswersQueue') = Len(persistAnswersQueue) + 1]_vars

\* C40: an item whose exam_id or q_id does not parse causes only that item to
\* be dropped: every item the handler pushed is still in the queue or the
\* buffer, or was written to RS.
C40_OnlyUnparsableItemDropped ==
    asPushed = Len(SelectSeq(persistAnswersQueue, ParsesIDs))
                 + Len(SelectSeq(asBuffer, ParsesIDs)) + asWritten

====
